---- MODULE Spec2Model ----
(***************************************************************************)
(* Model of the real-time search interface of claude-sessions              *)
(* (src/src/realtime_search.py): the shared SearchState, the result cache, *)
(* the single mutex search_lock, the foreground controller                 *)
(* (RealTimeSearch.run / handle_input / trigger_search) and the background *)
(* worker (search_worker / _process_search_request).                       *)
(*                                                                         *)
(* Granularity: one step per source statement that reads or writes shared  *)
(* state.  A `with self.search_lock:` block is two steps: the acquisition  *)
(* together with the block's body, and the release; statements that the    *)
(* code executes outside the lock are steps of their own, so that the      *)
(* other thread can run between them.                                      *)
(*                                                                         *)
(* Strings are sequences of characters.  A result list is the record       *)
(* [q |-> the query the list was computed for, n |-> its length]; its      *)
(* i-th match is identified by the pair (q, i).  An empty list that is     *)
(* published for query q is [q |-> q, n |-> 0].                            *)
(*                                                                         *)
(* Time: the code uses time.time() and update_age only in the difference  *)
(* time.time() - update_age, compared with the debounce delay.  The model *)
(* keeps that difference, update_age, in milliseconds; it grows in quanta  *)
(* of TickMs and is capped at DEBOUNCE_DELAY_MS, beyond which the code     *)
(* cannot tell two ages apart.                                             *)
(***************************************************************************)
EXTENDS Integers, Sequences, FiniteSets, TLC

VARIABLES
    query,           \* SearchState.query
    cursor_pos,      \* SearchState.cursor_pos
    results,         \* SearchState.results
    selected_index,  \* SearchState.selected_index
    update_age,      \* time.time() - SearchState.update_age (ms, capped)
    is_searching,    \* SearchState.is_searching: the dirty flag
    results_cache,   \* RealTimeSearch.results_cache: query -> result list
    search_lock,     \* RealTimeSearch.search_lock: "none", "controller", "worker"
    stop_event,      \* RealTimeSearch.stop_event
    c_pc,            \* position of the controller thread (run / handle_input)
    keys_seen,       \* trigger_search: the keys the comprehension iterates over
    w_pc,            \* position of the worker thread (search_worker)
    w_query,         \* _process_search_request: local `query`
    w_results,       \* _process_search_request: local `results`
    engine_active,   \* number of searcher.search calls in progress
    mut_age,         \* history: time since the latest assignment to state.query
    burst_runs,      \* history: queries the engine was invoked for in this burst
    w_in_burst,      \* history: the worker's cycle was snapshotted in this burst
    handler_stalled, \* history: the clock advanced inside a key handler
    history_on,      \* session: the history variables are recorded
    typed_chars,     \* session: the printable characters the user types
    hit_counts,      \* session: the numbers of matches the transcripts can yield
    display_on,      \* session: the contents of the screen are recorded
    platform,        \* session: sys.platform is "win32", or a POSIX system
    restore_fails,   \* session: termios.tcsetattr raises termios.error
    drawn,           \* TerminalDisplay: the result list on the screen
    run_result,      \* run: what it returns (or that it raises)
    raw_mode,        \* KeyboardHandler: the terminal is in raw mode
    wire,            \* keyboard: the bytes the terminal sends in this scenario
    cuts,            \* keyboard: after which bytes of wire a write of the terminal ends
    arrived,         \* keyboard: how many bytes of wire the terminal has written
    os_buf,          \* keyboard: the bytes readable on the descriptor of stdin
    py_buf,          \* keyboard: the bytes sys.stdin has read ahead
    k_pc,            \* get_key: position of the call in progress
    seq,             \* get_key: local `seq`
    events,          \* keyboard: the keys get_key has returned, in order
    e_query,         \* search: the argument query
    e_corpus,        \* search: the texts of the records under search_dir, in scan order
    e_case_sensitive,\* search: the argument case_sensitive
    e_max_results,   \* search: the argument max_results
    e_mode,          \* search: the argument mode of the call made ("none": no call yet)
    e_nlp,           \* ConversationSearcher.nlp is set (spaCy and its model are installed)
    e_scored,        \* _search_smart: the relevance computed for each record
    e_found,         \* search: all_results when the scan has ended
    e_out,           \* search: the list returned
    d_dir,           \* search: the directory search_dir and the files under it
    d_query,         \* search: the argument query
    d_speaker_filter,\* search: the argument speaker_filter ("none": None)
    d_max_results,   \* search: the argument max_results
    d_call,          \* search: mode, NLP backend and case setting of the call made
    d_ret            \* search: how the call ended

vars == <<query, cursor_pos, results, selected_index, update_age, is_searching,
          results_cache, search_lock, stop_event, c_pc, keys_seen,
          w_pc, w_query, w_results, engine_active, mut_age, burst_runs,
          w_in_burst, handler_stalled, history_on, typed_chars, hit_counts,
          display_on, platform, restore_fails, drawn, run_result, raw_mode,
          wire, cuts, arrived, os_buf, py_buf, k_pc, seq, events,
          e_query, e_corpus, e_case_sensitive, e_max_results, e_mode, e_nlp,
          e_scored, e_found, e_out,
          d_dir, d_query, d_speaker_filter, d_max_results, d_call, d_ret>>

state_vars == <<query, cursor_pos, results, selected_index, update_age, is_searching>>
worker_vars == <<w_pc, w_query, w_results, engine_active>>
hist_vars == <<mut_age, burst_runs, w_in_burst, handler_stalled>>
dir_vars == <<d_dir, d_query, d_speaker_filter, d_max_results, d_call, d_ret>>
engine_vars == <<e_query, e_corpus, e_case_sensitive, e_max_results, e_mode, e_nlp,
                 e_scored, e_found, e_out, dir_vars>>
session_vars == <<history_on, typed_chars, hit_counts, display_on, platform, restore_fails,
                  engine_vars>>
run_vars == <<run_result, raw_mode>>
keyboard_vars == <<wire, cuts, arrived, os_buf, py_buf, k_pc, seq, events>>
search_vars == <<state_vars, results_cache, search_lock, stop_event, c_pc, keys_seen,
                 worker_vars, hist_vars, session_vars, drawn, run_vars>>

----------------------------------------------------------------------------
(* Program constants.                                                      *)

MAX_RESULTS_DISPLAYED == 10
DEBOUNCE_DELAY_MS == 300
DEFAULT_MAX_RESULTS == 20

(* Bounds of the model.                                                    *)

MaxQueryLen == 2
TicksPerWindow == 2
MaxBurstRuns == 2
MaxInputLen == 4
MaxQueryWords == 4
MaxContentWords == 3
MaxRecords == 3
MaxRepeats == 6
MaxLines == 3

TickMs == DEBOUNCE_DELAY_MS \div TicksPerWindow

(* Lengths of the lists the engine may return: none, a few, and more than  *)
(* the display shows; never more than max_results.                         *)
ResultSizes == {0, 2, MAX_RESULTS_DISPLAYED + 1}

Min(a, b) == IF a < b THEN a ELSE b
Max(a, b) == IF a > b THEN a ELSE b

----------------------------------------------------------------------------
(* Python operations on strings, lists and dicts.                          *)

\* k.startswith(p)
startswith(k, p) == Len(p) <= Len(k) /\ SubSeq(k, 1, Len(p)) = p

\* a variant of InsertAt that appends the character
InsertAt_Append(s, pos, ch) == s \o <<ch>>

\* s[:pos] + ch + s[pos:]
InsertAt(s, pos, ch) == SubSeq(s, 1, pos) \o <<ch>> \o SubSeq(s, pos + 1, Len(s))

\* s[:pos - 1] + s[pos:]
DeleteBefore(s, pos) == SubSeq(s, 1, pos - 1) \o SubSeq(s, pos + 1, Len(s))

\* the literal [], published as the answer to query q
EmptyFor(q) == [q |-> q, n |-> 0]

\* the literal [] of SearchState.__post_init__
EmptyList == EmptyFor(<<>>)

\* results[:MAX_RESULTS_DISPLAYED]
Displayed(r) == [q |-> r.q, n |-> Min(r.n, MAX_RESULTS_DISPLAYED)]

\* {}
\* TerminalDisplay.draw_results(results, selected_index, query): the list
\* passed and the query passed, which is what the drawing depends on
DrawResults(r, qy) == [q |-> r.q, n |-> r.n, query |-> qy]

\* draw_results: what the result area shows: the list, or the message for
\* an empty list, which depends on the query alone
ResultArea(d) ==
    IF d.n > 0 THEN "list"
    ELSE IF d.query # <<>> THEN "No results found for query"
    ELSE "Start typing to search..."

EmptyCache == [k \in {} |-> EmptyList]

\* d[k] = v
DictPut(d, k, v) == [x \in (DOMAIN d) \cup {k} |-> IF x = k THEN v ELSE d[x]]

\* for k in ks: del d[k]
DictDel(d, ks) == [x \in (DOMAIN d) \ ks |-> d[x]]

----------------------------------------------------------------------------
(* The state after RealTimeSearch.__init__ and the start of run(): the     *)
(* worker thread is started and the controller waits for a key.  A session *)
(* is given by the characters the user types, the numbers of matches the   *)
(* engine can find in the transcripts, and whether the history variables   *)
(* are recorded; none of the three changes during a session.  The screen   *)
(* shows the initial draw of the empty result list, the terminal is in raw *)
(* mode, and no key has arrived.                                           *)

\* what run() has returned: outcome is "running" until it returns, then
\* "cancelled" (None), "selected" (the file path of match i of the list
\* computed for q), "raised" (an exception of the loop leaves run) or
\* "restore_error" (the termios.error of __exit__ leaves run)
Returned(outcome, q, i) == [outcome |-> outcome, q |-> q, i |-> i]

Running == Returned("running", <<>>, 0)

\* no call of get_key is in progress and nothing has been read
DecoderIdle ==
    /\ arrived = 0
    /\ os_buf = <<>>
    /\ py_buf = <<>>
    /\ k_pc = "idle"
    /\ seq = <<>>
    /\ events = <<>>

\* no byte is on its way and no call of get_key is in progress
KeyboardIdle ==
    /\ wire = <<>>
    /\ cuts = {}
    /\ arrived = 0
    /\ os_buf = <<>>
    /\ py_buf = <<>>
    /\ k_pc = "idle"
    /\ seq = <<>>
    /\ events = <<>>

SearchStart(chars, counts, hist) ==
    /\ query = <<>>
    /\ cursor_pos = 0
    /\ results = EmptyList
    /\ selected_index = 0
    /\ update_age = DEBOUNCE_DELAY_MS
    /\ is_searching = FALSE
    /\ results_cache = EmptyCache
    /\ search_lock = "none"
    /\ stop_event = FALSE
    /\ c_pc = "get_key"
    /\ keys_seen = {}
    /\ w_pc = "loop"
    /\ w_query = <<>>
    /\ w_results = EmptyList
    /\ engine_active = 0
    /\ mut_age = DEBOUNCE_DELAY_MS
    /\ burst_runs = <<>>
    /\ w_in_burst = FALSE
    /\ handler_stalled = FALSE
    /\ history_on = hist
    /\ typed_chars = chars
    /\ hit_counts = counts
    /\ drawn = DrawResults(EmptyList, <<>>)
    /\ run_result = Running

\* what a call of search has done: raised names the exception that reached
\* the caller ("none": it returned), matches is the list returned,
\* enumerated tells that search_dir.rglob was called, opened lists the files
\* (by their place in the enumeration) that open() was called for
Outcome(raised, matches, enumerated, opened) ==
    [raised |-> raised, matches |-> matches, enumerated |-> enumerated, opened |-> opened]

\* no search of a directory is to be made
DirectoryIdle ==
    /\ d_dir = [exists |-> FALSE, files |-> <<>>]
    /\ d_query = <<>>
    /\ d_speaker_filter = "none"
    /\ d_max_results = DEFAULT_MAX_RESULTS
    /\ d_call = [mode |-> "none", nlp |-> FALSE, lemmas |-> FALSE, case_sensitive |-> FALSE]
    /\ d_ret = Outcome("none", <<>>, FALSE, {})

\* ConversationSearcher: search has not been called
EngineFresh ==
    /\ DirectoryIdle
    /\ e_mode = "none"
    /\ e_nlp = FALSE
    /\ e_scored = <<>>
    /\ e_found = <<>>
    /\ e_out = <<>>

\* no search is to be made
EngineIdle ==
    /\ e_query = <<>>
    /\ e_corpus = <<>>
    /\ e_case_sensitive = FALSE
    /\ e_max_results = DEFAULT_MAX_RESULTS
    /\ EngineFresh

\* KeyboardHandler.__enter__ on a POSIX system: the settings are saved and
\* the terminal is put in raw mode; restoring them will succeed
PosixTerminal ==
    /\ platform = "posix"
    /\ restore_fails = FALSE
    /\ raw_mode = TRUE

InitSession(chars, counts, hist) ==
    /\ SearchStart(chars, counts, hist)
    /\ PosixTerminal
    /\ KeyboardIdle
    /\ EngineIdle

\* a session in which every search finds one match or two
Init == InitSession({"a"}, {1, 2}, FALSE) /\ display_on = FALSE

\* a session in which the history of mutations and engine runs is recorded
InitDebounce == InitSession({"a"}, {1}, TRUE) /\ display_on = FALSE

\* a session whose searches find no match, a few, or more than are displayed
InitSelect == InitSession({"a"}, ResultSizes, FALSE) /\ display_on = FALSE

\* a small session for the liveness properties
InitFair == InitSession({"a"}, {1}, FALSE) /\ display_on = FALSE

\* a session in which the user types two different characters
InitEdit == InitSession({"a", "b"}, {1}, FALSE) /\ display_on = FALSE

\* a small session in which the contents of the screen are recorded
InitDisplay == InitSession({"a"}, {1}, FALSE) /\ display_on = TRUE

----------------------------------------------------------------------------
(* History: a burst is a maximal run of query-text mutations each of which *)
(* follows the previous one by less than the debounce window.  A mutation  *)
(* that comes DEBOUNCE_DELAY_MS or more after the previous one starts a    *)
(* new burst.                                                              *)

StartsBurst == mut_age >= DEBOUNCE_DELAY_MS

RecordMutation ==
    /\ mut_age' = IF history_on THEN 0 ELSE mut_age
    /\ burst_runs' = IF StartsBurst THEN <<>> ELSE burst_runs
    /\ w_in_burst' = IF StartsBurst THEN FALSE ELSE w_in_burst
    /\ UNCHANGED handler_stalled

----------------------------------------------------------------------------
(* The controller: RealTimeSearch.run and handle_input.                    *)

\* KeyboardHandler.__exit__: on a POSIX system termios.tcsetattr is called
\* with the saved settings; it raises when the terminal refuses them
RestoreRaises == platform # "win32" /\ restore_fails

\* run: control leaves the `with KeyboardHandler()` block, whose __exit__
\* restores the saved terminal settings, and enters the finally clause.
\* An exception raised by __exit__ is not caught by run(): it replaces the
\* value run() was about to return (or the exception in flight).
LeaveLoop(outcome, q, i) ==
    /\ run_result' = IF RestoreRaises THEN Returned("restore_error", <<>>, 0)
                                      ELSE Returned(outcome, q, i)
    /\ raw_mode' = IF platform # "win32" /\ ~restore_fails THEN FALSE ELSE raw_mode
    /\ c_pc' = "stop"

\* handle_input: key == "ESC" -> "exit"; run returns None through finally.
KeyEscape ==
    /\ c_pc = "get_key"
    /\ LeaveLoop("cancelled", <<>>, 0)
    /\ UNCHANGED <<state_vars, results_cache, search_lock, stop_event,
                   keys_seen, worker_vars, hist_vars, session_vars,
                   drawn, keyboard_vars>>

\* get_key raises KeyboardInterrupt (Ctrl+C); run: except KeyboardInterrupt:
\* return None, through finally.
KeyInterrupt ==
    /\ c_pc = "get_key"
    /\ LeaveLoop("cancelled", <<>>, 0)
    /\ UNCHANGED <<state_vars, results_cache, search_lock, stop_event,
                   keys_seen, worker_vars, hist_vars, session_vars,
                   drawn, keyboard_vars>>

\* get_key returns None (no key within TERMINAL_UPDATE_RATE): run takes the
\* else branch of `if key:`.
KeyTimeout ==
    /\ c_pc = "get_key"
    /\ c_pc' = "timeout"
    /\ UNCHANGED <<state_vars, results_cache, search_lock, stop_event,
                   keys_seen, worker_vars, hist_vars, session_vars,
                   drawn, run_vars, keyboard_vars>>

\* run: else: pass, and the loop polls the keyboard again.
TimeoutPass ==
    /\ c_pc = "timeout"
    /\ c_pc' = "get_key"
    /\ UNCHANGED <<state_vars, results_cache, search_lock, stop_event,
                   keys_seen, worker_vars, hist_vars, session_vars,
                   drawn, run_vars, keyboard_vars>>

\* handle_input: key == "ENTER": "select" when the index is valid, else None.
KeyEnter ==
    /\ c_pc = "get_key"
    /\ c_pc' = IF results.n > 0 /\ 0 <= selected_index /\ selected_index < results.n
               THEN "select" ELSE "redraw"
    /\ UNCHANGED <<state_vars, results_cache, search_lock, stop_event,
                   keys_seen, worker_vars, hist_vars, session_vars,
                   drawn, run_vars, keyboard_vars>>

\* run: selected_result = self.state.results[self.state.selected_index];
\* return selected_result.file_path (through finally).  The list and the
\* index are read as they are now, after handle_input has returned.
RunSelect ==
    /\ c_pc = "select"
    /\ selected_index < results.n
    /\ LeaveLoop("selected", results.q, selected_index)
    /\ UNCHANGED <<state_vars, results_cache, search_lock, stop_event,
                   keys_seen, worker_vars, hist_vars, session_vars,
                   drawn, keyboard_vars>>

\* the same statement when the list has become shorter than the index since
\* handle_input tested it: IndexError, which unwinds run() through finally.
RunSelectRaise ==
    /\ c_pc = "select"
    /\ ~(selected_index < results.n)
    /\ LeaveLoop("raised", <<>>, 0)
    /\ UNCHANGED <<state_vars, results_cache, search_lock, stop_event,
                   keys_seen, worker_vars, hist_vars, session_vars,
                   drawn, keyboard_vars>>

\* handle_input: key == "UP": if self.state.results:
KeyUpCheck ==
    /\ c_pc = "get_key"
    /\ c_pc' = IF results.n > 0 THEN "up_write" ELSE "redraw"
    /\ UNCHANGED <<state_vars, results_cache, search_lock, stop_event,
                   keys_seen, worker_vars, hist_vars, session_vars,
                   drawn, run_vars, keyboard_vars>>

\* the index UP moves to
UpIndex(i) == Max(0, i - 1)

\* self.state.selected_index = max(0, self.state.selected_index - 1)
KeyUpWrite ==
    /\ c_pc = "up_write"
    /\ selected_index' = UpIndex(selected_index)
    /\ c_pc' = "redraw"
    /\ UNCHANGED <<query, cursor_pos, results, update_age, is_searching,
                   results_cache, search_lock, stop_event,
                   keys_seen, worker_vars, hist_vars, session_vars,
                   drawn, run_vars, keyboard_vars>>

\* handle_input: key == "DOWN": if self.state.results:
KeyDownCheck ==
    /\ c_pc = "get_key"
    /\ c_pc' = IF results.n > 0 THEN "down_write" ELSE "redraw"
    /\ UNCHANGED <<state_vars, results_cache, search_lock, stop_event,
                   keys_seen, worker_vars, hist_vars, session_vars,
                   drawn, run_vars, keyboard_vars>>

\* the index DOWN moves to, for the result list r as it is when the
\* assignment executes
DownIndex(r, i) == Min(Displayed(r).n - 1, i + 1)

\* self.state.selected_index = min(len(results[:MAX_RESULTS_DISPLAYED]) - 1,
\*                                 self.state.selected_index + 1)
KeyDownWrite ==
    /\ c_pc = "down_write"
    /\ selected_index' = DownIndex(results, selected_index)
    /\ c_pc' = "redraw"
    /\ UNCHANGED <<query, cursor_pos, results, update_age, is_searching,
                   results_cache, search_lock, stop_event,
                   keys_seen, worker_vars, hist_vars, session_vars,
                   drawn, run_vars, keyboard_vars>>

\* handle_input: key == "LEFT"
KeyLeft ==
    /\ c_pc = "get_key"
    /\ cursor_pos' = Max(0, cursor_pos - 1)
    /\ c_pc' = "redraw"
    /\ UNCHANGED <<query, results, selected_index, update_age, is_searching,
                   results_cache, search_lock, stop_event,
                   keys_seen, worker_vars, hist_vars, session_vars,
                   drawn, run_vars, keyboard_vars>>

\* handle_input: key == "RIGHT"
KeyRight ==
    /\ c_pc = "get_key"
    /\ cursor_pos' = Min(Len(query), cursor_pos + 1)
    /\ c_pc' = "redraw"
    /\ UNCHANGED <<query, results, selected_index, update_age, is_searching,
                   results_cache, search_lock, stop_event,
                   keys_seen, worker_vars, hist_vars, session_vars,
                   drawn, run_vars, keyboard_vars>>

\* handle_input: key == "BACKSPACE" with cursor_pos == 0: falls through, None.
KeyBackspaceNoop ==
    /\ c_pc = "get_key"
    /\ cursor_pos = 0
    /\ c_pc' = "redraw"
    /\ UNCHANGED <<state_vars, results_cache, search_lock, stop_event,
                   keys_seen, worker_vars, hist_vars, session_vars,
                   drawn, run_vars, keyboard_vars>>

\* a variant of KeyBackspace that also clears the published results
KeyBackspace_ClearsResults ==
    /\ c_pc = "get_key"
    /\ cursor_pos > 0
    /\ query' = DeleteBefore(query, cursor_pos)
    /\ cursor_pos' = cursor_pos - 1
    /\ results' = EmptyList
    /\ RecordMutation
    /\ c_pc' = "trigger"
    /\ UNCHANGED <<selected_index, update_age, is_searching,
                   results_cache, search_lock, stop_event,
                   keys_seen, worker_vars, session_vars,
                   drawn, run_vars, keyboard_vars>>

\* handle_input: key == "BACKSPACE" with cursor_pos > 0: the assignments to
\* self.state.query and self.state.cursor_pos, up to the call of
\* trigger_search.  (The worker never reads cursor_pos, so the two
\* assignments are one step.)
KeyBackspace ==
    /\ c_pc = "get_key"
    /\ cursor_pos > 0
    /\ query' = DeleteBefore(query, cursor_pos)
    /\ cursor_pos' = cursor_pos - 1
    /\ RecordMutation
    /\ c_pc' = "trigger"
    /\ UNCHANGED <<results, selected_index, update_age, is_searching,
                   results_cache, search_lock, stop_event,
                   keys_seen, worker_vars, session_vars,
                   drawn, run_vars, keyboard_vars>>

\* a variant of KeyChar that returns "redraw" without calling trigger_search
KeyChar_NoTrigger ==
    /\ c_pc = "get_key"
    /\ Len(query) < MaxQueryLen
    /\ \E ch \in typed_chars : query' = InsertAt(query, cursor_pos, ch)
    /\ cursor_pos' = cursor_pos + 1
    /\ RecordMutation
    /\ c_pc' = "redraw"
    /\ UNCHANGED <<results, selected_index, update_age, is_searching,
                   results_cache, search_lock, stop_event,
                   keys_seen, worker_vars, session_vars,
                   drawn, run_vars, keyboard_vars>>

\* handle_input: printable character: the assignments to self.state.query
\* and self.state.cursor_pos, up to the call of trigger_search.
KeyChar ==
    /\ c_pc = "get_key"
    /\ Len(query) < MaxQueryLen
    /\ \E ch \in typed_chars : query' = InsertAt(query, cursor_pos, ch)
    /\ cursor_pos' = cursor_pos + 1
    /\ RecordMutation
    /\ c_pc' = "trigger"
    /\ UNCHANGED <<results, selected_index, update_age, is_searching,
                   results_cache, search_lock, stop_event,
                   keys_seen, worker_vars, session_vars,
                   drawn, run_vars, keyboard_vars>>

\* a variant of KeysToRemove that keeps the keys that are prefixes of p
\* handle_input: a key that no branch handles (a character that is not
\* printable): return None; run: action is None: redraw.
KeyIgnored ==
    /\ c_pc = "get_key"
    /\ c_pc' = "redraw"
    /\ UNCHANGED <<state_vars, results_cache, search_lock, stop_event,
                   keys_seen, worker_vars, hist_vars, session_vars,
                   drawn, run_vars, keyboard_vars>>

KeysToRemove_KeepPrefixes(ks, p) == {k \in ks : ~startswith(p, k)}

\* the keys trigger_search removes once the query is p: those of the keys ks
\* that the comprehension's filter selects
KeysToRemove(ks, p) == {k \in ks : ~startswith(k, p)}

\* trigger_search: with self.search_lock: update_age, is_searching, and the
\* start of the comprehension over self.results_cache.keys().
TriggerAcquire ==
    /\ c_pc = "trigger"
    /\ search_lock = "none"
    /\ search_lock' = "controller"
    /\ update_age' = 0
    /\ is_searching' = TRUE
    /\ keys_seen' = DOMAIN results_cache
    /\ c_pc' = "trigger_del"
    /\ UNCHANGED <<query, cursor_pos, results, selected_index, results_cache,
                   stop_event, worker_vars, hist_vars, session_vars,
                   drawn, run_vars, keyboard_vars>>

\* trigger_search: the rest of the comprehension, the deletions and the
\* release of the lock.
TriggerDelete ==
    /\ c_pc = "trigger_del"
    /\ results_cache' = DictDel(results_cache, KeysToRemove(keys_seen, query))
    /\ search_lock' = "none"
    /\ keys_seen' = {}
    /\ c_pc' = "redraw"
    /\ UNCHANGED <<state_vars, stop_event, worker_vars, hist_vars, session_vars,
                   drawn, run_vars, keyboard_vars>>

\* trigger_search: the dict changed size while the comprehension iterated
\* over it (the worker inserted a key without the lock): RuntimeError, which
\* leaves the with block and unwinds run() through its finally.
TriggerRaise ==
    /\ c_pc = "trigger_del"
    /\ DOMAIN results_cache # keys_seen
    /\ search_lock' = "none"
    /\ keys_seen' = {}
    /\ LeaveLoop("raised", <<>>, 0)
    /\ UNCHANGED <<state_vars, results_cache, stop_event, worker_vars, hist_vars, session_vars,
                   drawn, keyboard_vars>>

\* run: draw_results(self.state.results[:MAX_RESULTS_DISPLAYED], ...) and
\* draw_search_box after a handled key.
Redraw ==
    /\ c_pc = "redraw"
    /\ drawn' = IF display_on THEN DrawResults(Displayed(results), query) ELSE drawn
    /\ c_pc' = "get_key"
    /\ UNCHANGED <<state_vars, results_cache, search_lock, stop_event,
                   keys_seen, worker_vars, hist_vars, session_vars,
                   run_vars, keyboard_vars>>

\* the worker thread is_alive()
WorkerAlive == w_pc \notin {"dead", "crashed"}

\* stop: if the thread is alive, set the stop event (and then join).
Stop ==
    /\ c_pc = "stop"
    /\ stop_event' = IF WorkerAlive THEN TRUE ELSE stop_event
    /\ c_pc' = IF WorkerAlive THEN "join" ELSE "returned"
    /\ UNCHANGED <<state_vars, results_cache, search_lock,
                   keys_seen, worker_vars, hist_vars, session_vars,
                   drawn, run_vars, keyboard_vars>>

\* stop: search_thread.join(timeout=TIMEOUT_WORKER_THREAD) returns, because
\* the worker ended or because the timeout elapsed.
JoinReturn ==
    /\ c_pc = "join"
    /\ c_pc' = "returned"
    /\ UNCHANGED <<state_vars, results_cache, search_lock, stop_event,
                   keys_seen, worker_vars, hist_vars, session_vars,
                   drawn, run_vars, keyboard_vars>>

Controller ==
    \/ KeyEscape \/ KeyInterrupt \/ KeyTimeout \/ TimeoutPass
    \/ KeyEnter \/ RunSelect \/ RunSelectRaise
    \/ KeyUpCheck \/ KeyUpWrite \/ KeyDownCheck \/ KeyDownWrite
    \/ KeyLeft \/ KeyRight
    \/ KeyBackspaceNoop \/ KeyBackspace \/ KeyChar \/ KeyIgnored
    \/ TriggerAcquire \/ TriggerDelete \/ TriggerRaise
    \/ Redraw \/ Stop \/ JoinReturn

----------------------------------------------------------------------------
(* The worker: search_worker and _process_search_request.                  *)

\* a variant of WLoopCheck that does not test the stop event
WLoopCheck_IgnoresStop ==
    /\ w_pc = "loop"
    /\ w_pc' = "poll"
    /\ UNCHANGED <<state_vars, results_cache, search_lock, stop_event,
                   c_pc, keys_seen, w_query, w_results, engine_active, hist_vars, session_vars,
                   drawn, run_vars, keyboard_vars>>

\* search_worker: while not self.stop_event.is_set():
\*     time.sleep(SEARCH_WORKER_POLL_INTERVAL)
\* The sleep touches no shared state and is shorter than the clock's quantum
\* (it may or may not see the clock advance): it is part of this step.
WLoopCheck ==
    /\ w_pc = "loop"
    /\ w_pc' = IF stop_event THEN "cleanup" ELSE "poll"
    /\ UNCHANGED <<state_vars, results_cache, search_lock, stop_event,
                   c_pc, keys_seen, w_query, w_results, engine_active, hist_vars, session_vars,
                   drawn, run_vars, keyboard_vars>>

\* search_worker: self.stop_event.clear() after the loop; the thread ends.
WCleanup ==
    /\ w_pc = "cleanup"
    /\ stop_event' = FALSE
    /\ w_pc' = "dead"
    /\ UNCHANGED <<state_vars, results_cache, search_lock,
                   c_pc, keys_seen, w_query, w_results, engine_active, hist_vars, session_vars,
                   drawn, run_vars, keyboard_vars>>

\* _process_search_request: the debounce test,
\* not (time.time() - self.state.update_age < self.debounce_delay)
DebounceElapsed(age) == ~(age < DEBOUNCE_DELAY_MS)

\* _process_search_request: the first with block returns False (not dirty, or
\* the debounce window has not elapsed).  The block only reads: acquisition,
\* tests and release are one step.
WPollIdle ==
    /\ w_pc = "poll"
    /\ search_lock = "none"
    /\ ~(is_searching /\ DebounceElapsed(update_age))
    /\ w_pc' = "loop"
    /\ UNCHANGED <<state_vars, results_cache, search_lock, stop_event,
                   c_pc, keys_seen, w_query, w_results, engine_active, hist_vars, session_vars,
                   drawn, run_vars, keyboard_vars>>

\* _process_search_request: the first with block snapshots the query and
\* clears the dirty flag.
WSnapshot ==
    /\ w_pc = "poll"
    /\ search_lock = "none"
    /\ is_searching
    /\ DebounceElapsed(update_age)
    /\ search_lock' = "worker"
    /\ w_query' = query
    /\ is_searching' = FALSE
    /\ w_in_burst' = history_on
    /\ w_pc' = "rel_snap"
    /\ UNCHANGED <<query, cursor_pos, results, selected_index, update_age,
                   results_cache, stop_event, c_pc, keys_seen,
                   w_results, engine_active, mut_age, burst_runs, handler_stalled,
                   session_vars,
                   drawn, run_vars, keyboard_vars>>

\* where the worker continues once it has left a with block
AfterRelease(pc) ==
    IF pc = "rel_snap" THEN "dispatch" ELSE "loop"

\* a variant of WRelease in which the snapshot block does not end before the
\* search: the worker goes on with the lock held
WRelease_KeepLock ==
    /\ w_pc \in {"rel_snap", "rel_done"}
    /\ search_lock = "worker"
    /\ search_lock' = IF w_pc = "rel_snap" THEN "worker" ELSE "none"
    /\ w_pc' = AfterRelease(w_pc)
    /\ w_query' = IF w_pc = "rel_snap" THEN w_query ELSE <<>>
    /\ w_results' = IF w_pc = "rel_snap" THEN w_results ELSE EmptyList
    /\ UNCHANGED <<state_vars, results_cache, stop_event,
                   c_pc, keys_seen, engine_active, hist_vars, session_vars,
                   drawn, run_vars, keyboard_vars>>

\* the end of a with self.search_lock: block of the worker; when
\* _process_search_request returns after it, its locals are gone
WRelease ==
    /\ w_pc \in {"rel_snap", "rel_done"}
    /\ search_lock = "worker"
    /\ search_lock' = "none"
    /\ w_pc' = AfterRelease(w_pc)
    /\ w_query' = IF w_pc = "rel_snap" THEN w_query ELSE <<>>
    /\ w_results' = IF w_pc = "rel_snap" THEN w_results ELSE EmptyList
    /\ UNCHANGED <<state_vars, results_cache, stop_event,
                   c_pc, keys_seen, engine_active, hist_vars, session_vars,
                   drawn, run_vars, keyboard_vars>>

\* _process_search_request: if not query: results = [] under the lock.
WEmptyQuery ==
    /\ w_pc = "dispatch"
    /\ w_query = <<>>
    /\ search_lock = "none"
    /\ search_lock' = "worker"
    /\ results' = EmptyFor(w_query)
    /\ w_pc' = "rel_done"
    /\ UNCHANGED <<query, cursor_pos, selected_index, update_age, is_searching,
                   results_cache, stop_event, c_pc, keys_seen,
                   w_query, w_results, engine_active, hist_vars, session_vars,
                   drawn, run_vars, keyboard_vars>>

\* a variant of WCacheCheck that is not preceded by the test for an empty
\* query
WCacheCheck_AnyQuery ==
    /\ w_pc = "dispatch"
    /\ w_pc' = IF w_query \in DOMAIN results_cache THEN "cache_hit" ELSE "engine_call"
    /\ UNCHANGED <<state_vars, results_cache, search_lock, stop_event,
                   c_pc, keys_seen, w_query, w_results, engine_active, hist_vars, session_vars,
                   drawn, run_vars, keyboard_vars>>

\* _process_search_request: if query in self.results_cache: (no lock held)
WCacheCheck ==
    /\ w_pc = "dispatch"
    /\ w_query # <<>>
    /\ w_pc' = IF w_query \in DOMAIN results_cache THEN "cache_hit" ELSE "engine_call"
    /\ UNCHANGED <<state_vars, results_cache, search_lock, stop_event,
                   c_pc, keys_seen, w_query, w_results, engine_active, hist_vars, session_vars,
                   drawn, run_vars, keyboard_vars>>

\* a variant of CacheKey that uses the live query text
CacheKey_LiveQuery == query

\* the key under which the worker reads and writes the cache: its snapshot
CacheKey == w_query

\* _process_search_request: with self.search_lock:
\*     self.state.results = self.results_cache[query]
WCachePublish ==
    /\ w_pc = "cache_hit"
    /\ search_lock = "none"
    /\ CacheKey \in DOMAIN results_cache
    /\ search_lock' = "worker"
    /\ results' = results_cache[CacheKey]
    /\ w_pc' = "rel_done"
    /\ UNCHANGED <<query, cursor_pos, selected_index, update_age, is_searching,
                   results_cache, stop_event, c_pc, keys_seen,
                   w_query, w_results, engine_active, hist_vars, session_vars,
                   drawn, run_vars, keyboard_vars>>

\* the same statement when trigger_search has evicted the key since the
\* membership test: KeyError, outside any try, ends the worker thread (the
\* with block releases the lock on the way out).
WCacheKeyError ==
    /\ w_pc = "cache_hit"
    /\ search_lock = "none"
    /\ CacheKey \notin DOMAIN results_cache
    /\ w_pc' = "crashed"
    /\ UNCHANGED <<state_vars, results_cache, search_lock, stop_event,
                   c_pc, keys_seen, w_query, w_results, engine_active, hist_vars, session_vars,
                   drawn, run_vars, keyboard_vars>>

\* a variant of AfterEngineCall in which the worker does not wait
AfterEngineCall_NoWait == "loop"

\* the position of the worker after it has issued searcher.search(...): it
\* waits for the call to return
AfterEngineCall == "engine"

\* _process_search_request: results = self.searcher.search(**search_kwargs):
\* the call is issued.
WEngineCall ==
    /\ w_pc = "engine_call"
    /\ engine_active' = engine_active + 1
    /\ burst_runs' = IF w_in_burst /\ Len(burst_runs) < MaxBurstRuns
                     THEN Append(burst_runs, w_query) ELSE burst_runs
    /\ w_pc' = AfterEngineCall
    /\ UNCHANGED <<state_vars, results_cache, search_lock, stop_event,
                   c_pc, keys_seen, w_query, w_results, mut_age, w_in_burst,
                   handler_stalled, session_vars,
                   drawn, run_vars, keyboard_vars>>

\* the list the engine returns for query q when it finds n matches
EngineResult(q, n) == [q |-> q, n |-> n]

\* searcher.search returns a list of at most max_results matches.
WEngineReturn ==
    /\ w_pc = "engine"
    /\ \E n \in hit_counts : w_results' = EngineResult(w_query, n)
    /\ engine_active' = engine_active - 1
    /\ w_pc' = "cache_put"
    /\ UNCHANGED <<state_vars, results_cache, search_lock, stop_event,
                   c_pc, keys_seen, w_query, hist_vars, session_vars,
                   drawn, run_vars, keyboard_vars>>

\* a variant of WEngineRaise without the except clause: the exception ends
\* the thread
WEngineRaise_Unhandled ==
    /\ w_pc = "engine"
    /\ engine_active' = engine_active - 1
    /\ w_pc' = "crashed"
    /\ UNCHANGED <<state_vars, results_cache, search_lock, stop_event,
                   c_pc, keys_seen, w_query, w_results, hist_vars, session_vars,
                   drawn, run_vars, keyboard_vars>>

\* searcher.search raises: except Exception.
WEngineRaise ==
    /\ w_pc = "engine"
    /\ engine_active' = engine_active - 1
    /\ w_pc' = "except"
    /\ UNCHANGED <<state_vars, results_cache, search_lock, stop_event,
                   c_pc, keys_seen, w_query, w_results, hist_vars, session_vars,
                   drawn, run_vars, keyboard_vars>>

\* self.results_cache[query] = results (no lock held)
WCachePut ==
    /\ w_pc = "cache_put"
    /\ results_cache' = DictPut(results_cache, CacheKey, w_results)
    /\ w_pc' = "pub_results"
    /\ UNCHANGED <<state_vars, search_lock, stop_event,
                   c_pc, keys_seen, w_query, w_results, engine_active, hist_vars, session_vars,
                   drawn, run_vars, keyboard_vars>>

\* with self.search_lock: self.state.results = results
WPublishResults ==
    /\ w_pc = "pub_results"
    /\ search_lock = "none"
    /\ search_lock' = "worker"
    /\ results' = w_results
    /\ w_pc' = "pub_sel"
    /\ UNCHANGED <<query, cursor_pos, selected_index, update_age, is_searching,
                   results_cache, stop_event, c_pc, keys_seen,
                   w_query, w_results, engine_active, hist_vars, session_vars,
                   drawn, run_vars, keyboard_vars>>

\* self.state.selected_index = 0 (still under the lock)
WPublishSelection ==
    /\ w_pc = "pub_sel"
    /\ selected_index' = 0
    /\ w_pc' = "rel_done"
    /\ UNCHANGED <<query, cursor_pos, results, update_age, is_searching,
                   results_cache, search_lock, stop_event, c_pc, keys_seen,
                   w_query, w_results, engine_active, hist_vars, session_vars,
                   drawn, run_vars, keyboard_vars>>

\* except Exception: with self.search_lock: self.state.results = []
WExcept ==
    /\ w_pc = "except"
    /\ search_lock = "none"
    /\ search_lock' = "worker"
    /\ results' = EmptyFor(w_query)
    /\ w_pc' = "rel_done"
    /\ UNCHANGED <<query, cursor_pos, selected_index, update_age, is_searching,
                   results_cache, stop_event, c_pc, keys_seen,
                   w_query, w_results, engine_active, hist_vars, session_vars,
                   drawn, run_vars, keyboard_vars>>

Worker ==
    \/ WLoopCheck \/ WCleanup
    \/ WPollIdle \/ WSnapshot \/ WRelease
    \/ WEmptyQuery \/ WCacheCheck \/ WCachePublish \/ WCacheKeyError
    \/ WEngineCall \/ WEngineReturn \/ WEngineRaise
    \/ WCachePut \/ WPublishResults \/ WPublishSelection \/ WExcept

----------------------------------------------------------------------------
\* the controller is inside the handling of a key (handle_input,
\* trigger_search, the redraw or the selection that follows it)
InHandler ==
    c_pc \in {"trigger", "trigger_del", "up_write", "down_write", "redraw", "select"}

\* an age t one clock quantum later
Older(t) == Min(DEBOUNCE_DELAY_MS, t + TickMs)

\* time.time() advances.
Tick ==
    /\ update_age < DEBOUNCE_DELAY_MS \/ mut_age < DEBOUNCE_DELAY_MS
    /\ update_age' = Older(update_age)
    /\ mut_age' = Older(mut_age)
    /\ handler_stalled' = (handler_stalled \/ (history_on /\ InHandler))
    /\ UNCHANGED <<query, cursor_pos, results, selected_index, is_searching,
                   results_cache, search_lock, stop_event,
                   c_pc, keys_seen, worker_vars, burst_runs, w_in_burst, session_vars,
                   drawn, run_vars, keyboard_vars>>

Next == Controller \/ Worker \/ Tick

Spec == Init /\ [][Next]_vars

SpecDebounce == InitDebounce /\ [][Next]_vars

SpecSelect == InitSelect /\ [][Next]_vars

(* The line editor on its own: the key events that edit the query or move  *)
(* the cursor, handled to their end, while the worker is not scheduled     *)
(* (no action of the worker assigns query or cursor_pos).                  *)
NextEdit ==
    \/ KeyTimeout \/ TimeoutPass
    \/ KeyLeft \/ KeyRight
    \/ KeyBackspaceNoop \/ KeyBackspace \/ KeyChar
    \/ TriggerAcquire \/ TriggerDelete
    \/ Redraw
    \/ Tick

SpecEdit == InitEdit /\ [][NextEdit]_vars

(* Fairness.  The worker is a thread of its own and the engine call        *)
(* terminates: the worker's next step is eventually taken.  The clock      *)
(* advances.  A key handler that has started runs to its end (the lock it  *)
(* waits for is held only for short sections).  Nothing obliges the user   *)
(* to press a key.                                                         *)
HandlerStep ==
    \/ KeyUpWrite \/ KeyDownWrite
    \/ TriggerAcquire \/ TriggerDelete \/ TriggerRaise
    \/ Redraw

SpecFair ==
    /\ InitFair
    /\ [][Next]_vars
    /\ WF_vars(Worker)
    /\ WF_vars(Tick)
    /\ WF_vars(HandlerStep)

----------------------------------------------------------------------------
(* The keyboard decoder: KeyboardHandler.get_key, stream backend.          *)
(*                                                                         *)
(* A scenario is the byte string the terminal sends (wire) and the places  *)
(* where one write of the terminal ends and the next begins (cuts).  The   *)
(* bytes of one write become readable on the descriptor together.          *)
(* get_key tests the descriptor with select.select([sys.stdin], ...) and   *)
(* reads with sys.stdin.read(1).  sys.stdin is a buffered text stream:     *)
(* when its buffer is empty, read(1) takes every byte that is readable on  *)
(* the descriptor into the buffer and returns the first; otherwise it      *)
(* returns the next byte of the buffer and leaves the descriptor alone.    *)
(* select sees the descriptor only.                                        *)
(* A call of get_key that times out at its first select returns None and   *)
(* changes nothing; it is not a step.  events lists what the calls that    *)
(* read at least one byte have returned: "UP", "DOWN", "LEFT", "RIGHT",    *)
(* "ESC", "ENTER", "BACKSPACE", "INTERRUPT", "NONE", or the character of a *)
(* printable key.                                                          *)

\* bytes: "ESC" is \x1b; the others stand for themselves.  The printable
\* characters (32 <= ord(char) < 127) that occur in the model:
Printable == {"[", "A", "B", "C", "D", "x", "a", "b"}

\* the bytes of the decoder's scenarios
InputBytes == {"ESC", "[", "A", "B", "C", "D", "x"}

\* the scenarios: every byte string of at most MaxInputLen bytes, written
\* by the terminal in any number of pieces
Inputs == UNION {[1..n -> InputBytes] : n \in 0..MaxInputLen}

InitKeyboard ==
    /\ SearchStart({"a"}, {1}, FALSE)
    /\ PosixTerminal
    /\ EngineIdle
    /\ display_on = FALSE
    /\ wire \in Inputs
    /\ cuts \in SUBSET (1..(Len(wire) - 1))
    /\ DecoderIdle

\* where the write of the terminal that follows byte p ends
WriteEnd(p) ==
    CHOOSE b \in (cuts \cup {Len(wire)}) :
        b > p /\ \A c \in (cuts \cup {Len(wire)}) : c > p => b <= c

\* the terminal writes its next piece: the bytes become readable
KArrive ==
    /\ arrived < Len(wire)
    /\ os_buf' = os_buf \o SubSeq(wire, arrived + 1, WriteEnd(arrived))
    /\ arrived' = WriteEnd(arrived)
    /\ UNCHANGED <<wire, cuts, py_buf, k_pc, seq, events, search_vars>>

\* select.select([sys.stdin], [], [], t)[0]
Readable == os_buf # <<>>

\* sys.stdin.read(1): the character returned
ReadChar == IF py_buf # <<>> THEN Head(py_buf) ELSE Head(os_buf)

\* sys.stdin.read(1): the buffer of sys.stdin and the descriptor afterwards
Read ==
    /\ py_buf' = IF py_buf # <<>> THEN Tail(py_buf) ELSE Tail(os_buf)
    /\ os_buf' = IF py_buf # <<>> THEN os_buf ELSE <<>>

\* get_key: the branches for a first character other than ESC
KeyOf(char) ==
    CASE char \in {"CR", "LF"} -> "ENTER"
      [] char \in {"DEL", "BS"} -> "BACKSPACE"
      [] char = "ETX" -> "INTERRUPT"
      [] char \in Printable -> char
      [] OTHER -> "NONE"

\* get_key: the comparison of seq with the four arrow sequences
ArrowKey(sq) ==
    CASE sq = <<"[", "A">> -> "UP"
      [] sq = <<"[", "B">> -> "DOWN"
      [] sq = <<"[", "C">> -> "RIGHT"
      [] sq = <<"[", "D">> -> "LEFT"
      [] OTHER -> "NONE"

\* get_key returns key
Return(key) ==
    /\ events' = Append(events, key)
    /\ seq' = <<>>
    /\ k_pc' = "idle"

\* get_key: the first select finds the descriptor readable; char =
\* sys.stdin.read(1); any character but ESC is returned as its key.
KReadFirst ==
    /\ k_pc = "idle"
    /\ Readable
    /\ Read
    /\ IF ReadChar = "ESC"
       THEN k_pc' = "esc" /\ UNCHANGED <<seq, events>>
       ELSE Return(KeyOf(ReadChar))
    /\ UNCHANGED <<wire, cuts, arrived, search_vars>>

\* after ESC: select with timeout 0.0 finds more; seq.append(read(1)).
KEscMore ==
    /\ k_pc = "esc"
    /\ Readable
    /\ Read
    /\ seq' = <<ReadChar>>
    /\ k_pc' = "esc2"
    /\ UNCHANGED <<wire, cuts, arrived, events, search_vars>>

\* after ESC: select finds nothing: "Just ESC by itself".
KEscAlone ==
    /\ k_pc = "esc"
    /\ ~Readable
    /\ Return("ESC")
    /\ UNCHANGED <<wire, cuts, arrived, os_buf, py_buf, search_vars>>

\* after the second byte: select finds more; seq.append(read(1)); an arrow
\* sequence is returned as its key, any other starts the drain loop.
KSeqMore ==
    /\ k_pc = "esc2"
    /\ Readable
    /\ Read
    /\ IF ArrowKey(Append(seq, ReadChar)) # "NONE"
       THEN Return(ArrowKey(Append(seq, ReadChar)))
       ELSE /\ seq' = Append(seq, ReadChar)
            /\ k_pc' = "drain"
            /\ UNCHANGED events
    /\ UNCHANGED <<wire, cuts, arrived, search_vars>>

\* after the second byte: select finds nothing: return None.
KSeqShort ==
    /\ k_pc = "esc2"
    /\ ~Readable
    /\ Return("NONE")
    /\ UNCHANGED <<wire, cuts, arrived, os_buf, py_buf, search_vars>>

\* while select.select(...)[0]: sys.stdin.read(1)
KDrainRead ==
    /\ k_pc = "drain"
    /\ Readable
    /\ Read
    /\ UNCHANGED <<wire, cuts, arrived, k_pc, seq, events, search_vars>>

\* the drain loop ends: return None.
KDrainDone ==
    /\ k_pc = "drain"
    /\ ~Readable
    /\ Return("NONE")
    /\ UNCHANGED <<wire, cuts, arrived, os_buf, py_buf, search_vars>>

NextKeyboard ==
    \/ KArrive
    \/ KReadFirst \/ KEscMore \/ KEscAlone
    \/ KSeqMore \/ KSeqShort
    \/ KDrainRead \/ KDrainDone

SpecKeyboard == InitKeyboard /\ [][NextKeyboard]_vars

\* the user presses a key: get_key returns something other than None
KeyPress ==
    \/ KeyEscape \/ KeyInterrupt \/ KeyEnter
    \/ KeyUpCheck \/ KeyDownCheck \/ KeyLeft \/ KeyRight
    \/ KeyBackspaceNoop \/ KeyBackspace \/ KeyChar \/ KeyIgnored

\* run: the return statement and the finally clause
Teardown == RunSelect \/ RunSelectRaise \/ Stop \/ JoinReturn

\* run: a poll of the keyboard that times out
IdlePoll == KeyTimeout \/ TimeoutPass

(* The same, for a session whose screen is recorded, with the controller's *)
(* part made explicit: get_key returns after TERMINAL_UPDATE_RATE when no   *)
(* key is pressed, and the return statement and the finally clause of      *)
(* run() are executed (join has a timeout).                                *)
SpecIdle ==
    /\ InitDisplay
    /\ [][Next]_vars
    /\ WF_vars(Worker)
    /\ WF_vars(Tick)
    /\ WF_vars(HandlerStep)
    /\ WF_vars(Teardown)
    /\ WF_vars(IdlePoll)

(* The two backends of get_key, under the controller.                      *)
(*                                                                         *)
(* A key stroke is the bytes one key press delivers.  A session runs on    *)
(* one platform: on a POSIX system get_key reads the stream (a stroke of   *)
(* one byte is alone on the descriptor when it is read), on win32 it reads *)
(* the console with msvcrt.getch, one call for a plain key and two for a   *)
(* special key (prefix byte, then key code).  Bytes: "ETX" is \x03         *)
(* (Ctrl+C), "ESC" \x1b, "CR" \r, "LF" \n, "BS" \x08, "DEL" \x7f, "NUL"     *)
(* \x00; "H", "P", "K", "M" after the prefix are the arrow key codes and    *)
(* ";" is the code of F1.  A printable character stands for itself.        *)
StreamStrokes ==
    {<<b>> : b \in {"ETX", "ESC", "CR", "LF", "BS", "DEL", "NUL"} \cup typed_chars}

ConsoleStrokes ==
    StreamStrokes \cup {<<"NUL", c>> : c \in {"H", "P", "K", "M", ";"}}

\* get_key, console backend: what the call returns for the stroke it reads.
\* A special key other than the arrows falls out of the if statement
\* and the call goes on polling until its timeout: None.  Every other byte
\* is decoded and returned as the character it encodes.
ConsoleKey(stroke) ==
    IF stroke[1] \in {"NUL", "E0"} /\ Len(stroke) > 1
    THEN CASE stroke[2] = "H" -> "UP"
           [] stroke[2] = "P" -> "DOWN"
           [] stroke[2] = "K" -> "LEFT"
           [] stroke[2] = "M" -> "RIGHT"
           [] OTHER -> "NONE"
    ELSE CASE stroke[1] = "ESC" -> "ESC"
           [] stroke[1] = "CR" -> "ENTER"
           [] stroke[1] = "BS" -> "BACKSPACE"
           [] OTHER -> stroke[1]

\* get_key, stream backend, for a stroke of one byte: ESC with nothing
\* behind it is "Just ESC by itself"
StreamKey(stroke) == IF stroke[1] = "ESC" THEN "ESC" ELSE KeyOf(stroke[1])

\* get_key on the platform of the session
GetKey(stroke) ==
    IF platform = "win32" THEN ConsoleKey(stroke) ELSE StreamKey(stroke)

\* the strokes the platform's keyboard delivers
KeyStrokes == IF platform = "win32" THEN ConsoleStrokes ELSE StreamStrokes

\* run: `if key: action = self.handle_input(key)`, for the value get_key
\* returned or the exception it raised; handle_input's chain of branches
HandleKey(key) ==
    CASE key = "INTERRUPT" -> KeyInterrupt
      [] key = "NONE" -> KeyTimeout
      [] key = "ESC" -> KeyEscape
      [] key = "ENTER" -> KeyEnter
      [] key = "UP" -> KeyUpCheck
      [] key = "DOWN" -> KeyDownCheck
      [] key = "LEFT" -> KeyLeft
      [] key = "RIGHT" -> KeyRight
      [] key = "BACKSPACE" -> KeyBackspace \/ KeyBackspaceNoop
      [] key \in typed_chars -> KeyChar
      [] OTHER -> KeyIgnored

\* the user presses a key: get_key reads its stroke and run handles the key
ReadKey(stroke) == c_pc = "get_key" /\ HandleKey(GetKey(stroke))

PressKey == \E stroke \in KeyStrokes : ReadKey(stroke)

\* a session on either platform, whose terminal may refuse the restore
InitBackends ==
    /\ SearchStart({"a"}, {1}, FALSE)
    /\ KeyboardIdle
    /\ EngineIdle
    /\ display_on = FALSE
    /\ platform \in {"posix", "win32"}
    /\ restore_fails \in BOOLEAN
    /\ raw_mode = (platform # "win32")

NextBackends ==
    \/ PressKey \/ KeyTimeout \/ TimeoutPass
    \/ RunSelect \/ RunSelectRaise
    \/ KeyUpWrite \/ KeyDownWrite
    \/ TriggerAcquire \/ TriggerDelete \/ TriggerRaise
    \/ Redraw \/ Stop \/ JoinReturn
    \/ Worker \/ Tick

SpecBackends == InitBackends /\ [][NextBackends]_vars

\* a session whose screen is recorded
SpecDisplay == InitDisplay /\ [][Next]_vars

(* Shutdown: the worker's next step is eventually taken, and the return   *)
(* statement and the finally clause of run() are executed.  Nothing else   *)
(* is assumed: the user may stop pressing keys at any point.               *)
SpecStop ==
    /\ InitFair
    /\ [][Next]_vars
    /\ WF_vars(Worker)
    /\ WF_vars(Teardown)

----------------------------------------------------------------------------
(***************************************************************************)
(* The relevance search engine: ConversationSearcher                       *)
(* (src/src/search_conversations.py).                                      *)
(*                                                                         *)
(* A text is a sequence of characters; " " is the only whitespace that     *)
(* occurs.  The corpus is the sequence of the records the scan visits, in  *)
(* discovery order (file by file, line by line), each given by its text;   *)
(* every record is a user or assistant message with a non-empty text that  *)
(* passes the speaker filter.  A match is [rec |-> the index of its record *)
(* in the corpus, relevance |-> its score].                                *)
(*                                                                         *)
(* Scores are exact fractions: a score s stands for s / Scale, and Scale   *)
(* is chosen so that every score the engine forms is a whole number of     *)
(* units (tenths divided by a number of query tokens).  The code computes  *)
(* in binary floating point; the one comparison of the code whose outcome  *)
(* depends on an exact tie, relevance > 0.1 for the overlap 1/4 * 0.4,     *)
(* comes out the same way there (0.25 * 0.4 is the float 0.1).             *)
(***************************************************************************)
RECURSIVE Gcd(_, _)
Gcd(a, b) == IF b = 0 THEN a ELSE Gcd(b, a % b)

RECURSIVE LcmUpTo(_)
LcmUpTo(n) == IF n <= 1 THEN 1 ELSE (LcmUpTo(n - 1) * n) \div Gcd(LcmUpTo(n - 1), n)

\* one unit of score is 1 / Scale
Scale == 10 * LcmUpTo(MaxQueryWords)

Tenths(n) == n * (Scale \div 10)

\* SearchConfig, the relevance scoring thresholds
relevance_threshold == Tenths(1)
min_relevance_compared == Tenths(10)
match_factor_for_relevance == Tenths(2)
match_bonus == Tenths(5)
min_relevance_multiple_occurrences == Tenths(3)
match_factor_multiple_occurrences == Tenths(1)
min_relevance_overlap == Tenths(4)
match_factor_overlap == Tenths(4)
proximity_bonus == Tenths(1)
min_tokens_for_proximity_bonus == 1
proximity_window_multiplier == 2
additional_boost_exact_match == Tenths(3)
semantic_similarity_threshold == Tenths(3)

\* str.lower() on the characters of the model
UpperToLower ==
    ("B" :> "b") @@ ("P" :> "p") @@ ("E" :> "e") @@ ("J" :> "j") @@ ("S" :> "s")

lower(s) ==
    [i \in 1..Len(s) |-> IF s[i] \in DOMAIN UpperToLower THEN UpperToLower[s[i]] ELSE s[i]]

\* sub in s, for a non-empty sub
contains(s, sub) ==
    \E i \in 1..(Len(s) - Len(sub) + 1) : SubSeq(s, i, i + Len(sub) - 1) = sub

\* s.count(sub): the occurrences found scanning from the left, each search
\* resuming behind the previous occurrence
RECURSIVE count_from(_, _, _)
count_from(s, sub, i) ==
    IF i + Len(sub) - 1 > Len(s) THEN 0
    ELSE IF SubSeq(s, i, i + Len(sub) - 1) = sub
         THEN 1 + count_from(s, sub, i + Len(sub))
         ELSE count_from(s, sub, i + 1)

count(s, sub) == count_from(s, sub, 1)

\* s.split(): the maximal runs of characters other than whitespace
RECURSIVE split_from(_, _, _)
split_from(s, i, word) ==
    IF i > Len(s) THEN (IF word = <<>> THEN <<>> ELSE <<word>>)
    ELSE IF s[i] = " "
         THEN (IF word = <<>> THEN <<>> ELSE <<word>>) \o split_from(s, i + 1, <<>>)
         ELSE split_from(s, i + 1, Append(word, s[i]))

split(s) == split_from(s, 1, <<>>)

\* s.strip() is empty
IsBlank(s) == \A i \in 1..Len(s) : s[i] = " "

\* set(list)
ToSet(s) == {s[i] : i \in 1..Len(s)}

\* self.stop_words: the entries that can be formed from the words of the
\* model
stop_words == {<<"a">>, <<"a", "r", "e">>, <<"t", "h", "e">>, <<"i", "s">>}

\* _search_smart: query_tokens
QueryTokens(qy, cs) == ToSet(split(IF cs THEN qy ELSE lower(qy))) \ stop_words

\* _search_exact: the relevance of a record with match_count occurrences
ExactRelevance_Unclamped(match_count) == match_count * match_factor_for_relevance

ExactRelevance(match_count) ==
    Min(min_relevance_compared, match_count * match_factor_for_relevance)

\* _search_exact: the matches of the corpus
RECURSIVE search_exact(_, _, _, _)
search_exact(corpus, i, qy, cs) ==
    IF i > Len(corpus) THEN <<>>
    ELSE LET search_query == IF cs THEN qy ELSE lower(qy)
             search_content == IF cs THEN corpus[i] ELSE lower(corpus[i])
         IN  (IF contains(search_content, search_query)
              THEN <<[rec |-> i,
                      relevance |-> ExactRelevance(count(search_content, search_query))]>>
              ELSE <<>>) \o search_exact(corpus, i + 1, qy, cs)

\* re: the pattern matches the text at position i.  The patterns of the
\* model are made of literal characters and ".", which matches any
\* character; with re.IGNORECASE letters match in either case.
MatchesAt(text, i, pattern, cs) ==
    /\ i + Len(pattern) - 1 <= Len(text)
    /\ \A j \in 1..Len(pattern) :
          \/ pattern[j] = "."
          \/ IF cs THEN pattern[j] = text[i + j - 1]
                   ELSE lower(<<pattern[j]>>) = lower(<<text[i + j - 1]>>)

\* len(list(regex.finditer(content))): the matches that do not overlap,
\* found from the left
RECURSIVE finditer_from(_, _, _, _)
finditer_from(text, i, pattern, cs) ==
    IF i + Len(pattern) - 1 > Len(text) THEN 0
    ELSE IF MatchesAt(text, i, pattern, cs)
         THEN 1 + finditer_from(text, i + Len(pattern), pattern, cs)
         ELSE finditer_from(text, i + 1, pattern, cs)

\* _search_regex: the matches of the corpus
RECURSIVE search_regex(_, _, _, _)
search_regex(corpus, i, pattern, cs) ==
    IF i > Len(corpus) THEN <<>>
    ELSE LET matches == finditer_from(corpus[i], 1, pattern, cs)
         IN  (IF matches > 0
              THEN <<[rec |-> i, relevance |-> ExactRelevance(matches)]>>
              ELSE <<>>) \o search_regex(corpus, i + 1, pattern, cs)

\* _calculate_relevance: the exact match bonus
ExactMatchBonus_None(content_lower, query_lower) == 0

ExactMatchBonus(content_lower, query_lower) ==
    IF contains(content_lower, query_lower)
    THEN match_bonus + Min(min_relevance_multiple_occurrences,
                           count(content_lower, query_lower)
                               * match_factor_multiple_occurrences)
    ELSE 0

\* _calculate_relevance: the token overlap
TokenOverlap_Uncapped(content_lower, query_tokens) ==
    LET content_tokens == ToSet(split(content_lower)) \ stop_words
    IN  IF query_tokens # {} /\ content_tokens # {}
        THEN Cardinality(query_tokens \cap content_tokens) * match_factor_overlap
        ELSE 0

TokenOverlap(content_lower, query_tokens) ==
    LET content_tokens == ToSet(split(content_lower)) \ stop_words
    IN  IF query_tokens # {} /\ content_tokens # {}
        THEN Min(min_relevance_overlap,
                 (Cardinality(query_tokens \cap content_tokens) * match_factor_overlap)
                     \div Cardinality(query_tokens))
        ELSE 0

\* _calculate_relevance: words[i : i + len(query_tokens) * 2] as a set
Window(words, i, size) == {words[j] : j \in (i + 1)..Min(Len(words), i + size)}

\* _calculate_relevance: the proximity bonus; i ranges over
\* range(len(words) - len(query_tokens))
ProximityBonus(content_lower, query_tokens) ==
    LET words == split(content_lower)
        n == Cardinality(query_tokens)
    IN  IF /\ n > min_tokens_for_proximity_bonus
           /\ \E i \in 0..(Len(words) - n - 1) :
                 query_tokens \subseteq Window(words, i, n * proximity_window_multiplier)
        THEN proximity_bonus
        ELSE 0

\* _calculate_relevance: the three parts and their clamped sum
Relevance_Unclamped(parts) == parts.exact + parts.overlap + parts.proximity

Relevance(parts) ==
    Min(min_relevance_compared, parts.exact + parts.overlap + parts.proximity)

calculate_relevance(content, qy, query_tokens, cs) ==
    LET content_lower == IF cs THEN content ELSE lower(content)
        query_lower == IF cs THEN qy ELSE lower(qy)
        parts == [exact |-> ExactMatchBonus(content_lower, query_lower),
                  overlap |-> TokenOverlap(content_lower, query_tokens),
                  proximity |-> ProximityBonus(content_lower, query_tokens)]
    IN  [exact |-> parts.exact, overlap |-> parts.overlap,
         proximity |-> parts.proximity, relevance |-> Relevance(parts)]

\* _search_smart: the relevance computed for each record
smart_scores(corpus, qy, cs) ==
    [i \in 1..Len(corpus) |-> calculate_relevance(corpus[i], qy, QueryTokens(qy, cs), cs)]

\* _search_smart: if relevance > CONFIG.relevance_threshold
Kept_AtLeastThreshold(relevance) == relevance >= relevance_threshold

Kept(relevance) == relevance > relevance_threshold

\* the matches among the scored records, in the order of the scan
RECURSIVE kept_from(_, _)
kept_from(scores, i) ==
    IF i > Len(scores) THEN <<>>
    ELSE (IF Kept(scores[i].relevance)
          THEN <<[rec |-> i, relevance |-> scores[i].relevance]>>
          ELSE <<>>) \o kept_from(scores, i + 1)

search_smart(corpus, qy, cs) == kept_from(smart_scores(corpus, qy, cs), 1)

\* spaCy, as far as the engine uses it: a document is the tokens of the
\* text, here its words; a token is alphabetic when it consists of letters
\* and is a stop word when the pipeline's list has it
IsAlpha(word) == \A i \in 1..Len(word) : word[i] # "."

IsContentToken(word) == IsAlpha(word) /\ word \notin stop_words

\* token.lemma_: __init__ disables the lemmatizer of the pipeline; lemmas
\* says whether the tokens carry a lemma nevertheless (the word itself) or
\* the empty string
Lemma(word, lemmas) == IF lemmas THEN word ELSE <<>>

\* _calculate_semantic_similarity
semantic_similarity(qy, content, lemmas) ==
    LET query_doc == split(lower(qy))
        content_doc == split(lower(content))
        query_tokens == SelectSeq(query_doc, IsContentToken)
        Similar(t) == \E j \in 1..Len(content_doc) :
                         /\ IsContentToken(content_doc[j])
                         /\ \/ Lemma(t, lemmas) = Lemma(content_doc[j], lemmas)
                            \/ t = content_doc[j]
        similar_count == Cardinality({k \in 1..Len(query_tokens) : Similar(query_tokens[k])})
        base_similarity == (similar_count * Scale) \div Len(query_tokens)
    IN  IF query_tokens = <<>> THEN 0
        ELSE IF contains(lower(content), lower(qy))
             THEN Min(min_relevance_compared, base_similarity + additional_boost_exact_match)
             ELSE base_similarity

\* _search_semantic: the matches of the corpus
RECURSIVE search_semantic(_, _, _, _)
search_semantic(corpus, i, qy, lemmas) ==
    IF i > Len(corpus) THEN <<>>
    ELSE LET similarity == semantic_similarity(qy, corpus[i], lemmas)
         IN  (IF similarity > semantic_similarity_threshold
              THEN <<[rec |-> i, relevance |-> similarity]>>
              ELSE <<>>) \o search_semantic(corpus, i + 1, qy, lemmas)

\* list.sort(key=lambda x: x.relevance_score, reverse=True): the sort is
\* stable, matches of equal relevance keep the order of the scan
RECURSIVE InsertByRelevance(_, _)
InsertByRelevance(sorted, m) ==
    IF sorted = <<>> THEN <<m>>
    ELSE IF Head(sorted).relevance >= m.relevance
         THEN <<Head(sorted)>> \o InsertByRelevance(Tail(sorted), m)
         ELSE <<m>> \o sorted

RECURSIVE SortByRelevance(_)
SortByRelevance(ms) ==
    IF ms = <<>> THEN <<>>
    ELSE InsertByRelevance(SortByRelevance(SubSeq(ms, 1, Len(ms) - 1)), ms[Len(ms)])

\* all_results[:max_results], for max_results >= 0
TopResults_All(ms, max_results) == ms

TopResults(ms, max_results) == SubSeq(ms, 1, Min(max_results, Len(ms)))

\* a variant of Scan that runs the semantic scan whether or not the NLP
\* backend is there (_search_semantic returns [] without it)
Scan_SemanticWithoutBackend(mode, nlp, lemmas, corpus, qy, cs) ==
    CASE mode = "regex" -> search_regex(corpus, 1, qy, cs)
      [] mode = "exact" -> search_exact(corpus, 1, qy, cs)
      [] mode = "semantic" -> IF nlp THEN search_semantic(corpus, 1, qy, lemmas) ELSE <<>>
      [] OTHER -> search_smart(corpus, qy, cs)

\* search: the results of the mode's scan of the corpus
Scan(mode, nlp, lemmas, corpus, qy, cs) ==
    CASE mode = "regex" -> search_regex(corpus, 1, qy, cs)
      [] mode = "exact" -> search_exact(corpus, 1, qy, cs)
      [] mode = "semantic" /\ nlp -> search_semantic(corpus, 1, qy, lemmas)
      [] OTHER -> search_smart(corpus, qy, cs)

\* search: all_results, when the loop over the files has ended
all_results(qy, corpus, mode, nlp, lemmas, cs) ==
    IF qy = <<>> \/ IsBlank(qy) THEN <<>>
    ELSE Scan(mode, nlp, lemmas, corpus, qy, cs)

\* search
search(qy, corpus, mode, nlp, lemmas, max_results, cs) ==
    IF qy = <<>> \/ IsBlank(qy) THEN <<>>
    ELSE TopResults(SortByRelevance(Scan(mode, nlp, lemmas, corpus, qy, cs)), max_results)

\* the relevance _search_smart computes for each record, when it is the
\* scan that search runs
Scored(qy, corpus, mode, nlp, cs) ==
    IF (qy = <<>> \/ IsBlank(qy)) \/ mode \in {"regex", "exact"} \/ (mode = "semantic" /\ nlp)
    THEN <<>>
    ELSE smart_scores(corpus, qy, cs)

\* a call of search in the given mode
Search(mode, nlp, lemmas) ==
    /\ e_mode = "none"
    /\ e_mode' = mode
    /\ e_nlp' = nlp
    /\ e_out' = search(e_query, e_corpus, mode, nlp, lemmas, e_max_results, e_case_sensitive)
    /\ e_scored' = Scored(e_query, e_corpus, mode, nlp, e_case_sensitive)
    /\ e_found' = all_results(e_query, e_corpus, mode, nlp, lemmas, e_case_sensitive)
    /\ UNCHANGED <<e_query, e_corpus, e_case_sensitive, e_max_results,
                   state_vars, results_cache, search_lock, stop_event, c_pc,
                   keys_seen, worker_vars, hist_vars, history_on, typed_chars,
                   hit_counts, display_on, platform, restore_fails, dir_vars,
                   drawn, run_vars, keyboard_vars>>

SearchExact == Search("exact", FALSE, FALSE)

SearchRegex == Search("regex", FALSE, FALSE)

SearchSmart == Search("smart", FALSE, FALSE)

\* mode "semantic": with the NLP backend when it is installed, else the
\* smart scan
SearchSemantic == \E nlp \in BOOLEAN, lemmas \in BOOLEAN : Search("semantic", nlp, lemmas)

NextEngine == SearchExact \/ SearchRegex \/ SearchSmart \/ SearchSemantic

\* the words of the enumerated queries: a stop word, three tokens, one of
\* them in both cases, and a token that contains two of the others
Vocabulary == {<<"a">>, <<"b">>, <<"c">>, <<"B">>, <<"b", "c">>}

\* the words of the enumerated records
ContentWords == {<<"a">>, <<"b">>, <<"b", "c">>}

\* " ".join(words)
RECURSIVE Join(_)
Join(words) ==
    IF words = <<>> THEN <<>>
    ELSE IF Len(words) = 1 THEN words[1]
    ELSE words[1] \o <<" ">> \o Join(Tail(words))

\* the texts of one to n words
Texts(n) == {Join(ws) : ws \in UNION {[1..k -> ContentWords] : k \in 1..n}}

\* the texts that repeat one word
RepeatTexts == {Join([i \in 1..n |-> <<"b">>]) : n \in 1..MaxRepeats}

\* the queries: no word twice
Queries ==
    {Join(ws) : ws \in {w \in UNION {[1..k -> Vocabulary] : k \in 0..MaxQueryWords} :
                           \A i, j \in 1..Len(w) : w[i] = w[j] => i = j}}

\* scenario A: two records, the queries "python" and "rust"
Python == <<"p", "y", "t", "h", "o", "n">>
Rust == <<"r", "u", "s", "t">>
PythonDecorators ==
    <<"P", "y", "t", "h", "o", "n", " ", "d", "e", "c", "o", "r", "a", "t", "o", "r", "s",
      " ", "a", "r", "e", " ", "g", "r", "e", "a", "t">>
ExplainJavaScript ==
    <<"E", "x", "p", "l", "a", "i", "n", " ", "J", "a", "v", "a", "S", "c", "r", "i", "p", "t",
      " ", "p", "r", "o", "m", "i", "s", "e", "s">>
ScenarioA == <<PythonDecorators, ExplainJavaScript>>

\* the interface at rest
InterfaceIdle ==
    /\ SearchStart({"a"}, {1}, FALSE)
    /\ PosixTerminal
    /\ KeyboardIdle
    /\ display_on = FALSE

\* one record and a query, every pair of the enumerated texts, and
\* scenario A
InitEngine ==
    /\ InterfaceIdle
    /\ \/ /\ e_query \in Queries \cup {<<"b", ".">>}
          /\ e_corpus \in {<<t>> : t \in Texts(MaxContentWords) \cup RepeatTexts}
       \/ /\ e_query \in {Python, Rust}
          /\ e_corpus = ScenarioA
    /\ e_case_sensitive \in BOOLEAN
    /\ e_max_results = DEFAULT_MAX_RESULTS
    /\ EngineFresh

SpecEngine == InitEngine /\ [][NextEngine]_vars

\* the texts of the ranking: for the query "b c" they score differently
RankTexts == {Join(ws) : ws \in {<<<<"b">>, <<"c">>>>, <<<<"c">>, <<"b">>>>,
                                 <<<<"b">>>>, <<<<"a">>>>}}

\* up to MaxRecords records and a limit
InitRank ==
    /\ InterfaceIdle
    /\ e_query = Join(<<<<"b">>, <<"c">>>>)
    /\ e_corpus \in UNION {[1..k -> RankTexts] : k \in 0..MaxRecords}
    /\ e_case_sensitive = FALSE
    /\ e_max_results \in 0..MaxRecords
    /\ EngineFresh

SpecRank == InitRank /\ [][NextEngine]_vars

(* The search of a directory: ConversationSearcher.search with the files   *)
(* it enumerates and the lines it reads.                                   *)
(*                                                                         *)
(* A directory is [exists, files]; files are the *.jsonl files under it in *)
(* the order of the enumeration, each [readable, lines]; open() raises for *)
(* a file that is not readable.  A line is [json, type, content,           *)
(* timestamp]: json tells what json.loads makes of the line, "object" (a   *)
(* dict), "invalid" (JSONDecodeError) or "not_object" (a list, a number, a *)
(* string, true, false or null); type, content and timestamp are the       *)
(* fields of an object.  A timestamp is 0 when the entry has none and      *)
(* otherwise an instant with a UTC offset, a greater number for a later    *)
(* one.  A call is [mode, nlp, lemmas, case_sensitive].  A match is        *)
(* [file, line, speaker, content, relevance, timestamp]; its context is a  *)
(* function of content, query and case setting.                            *)

\* re.compile(pattern, flags) for the patterns of the model: letters and "."
\* compile; "[" opens a character set that nothing closes (re.error); "{",
\* "9", "}" is a repetition count of MAXREPEAT or more (OverflowError, which
\* is not an re.error)
compile(pattern) ==
    IF \E j \in 1..Len(pattern) : pattern[j] = "[" THEN "re.error"
    ELSE IF \E j \in 1..Len(pattern) : pattern[j] = "{" THEN "OverflowError"
    ELSE "ok"

\* "human" if entry["type"] == "user" else "assistant"
Speaker(type) == IF type = "user" THEN "human" ELSE "assistant"

\* a variant of Admits that lets every speaker pass
Admits_Everyone(speaker_filter, speaker) == TRUE

\* if speaker_filter and speaker != speaker_filter: continue
Admits(speaker_filter, speaker) == speaker_filter = "none" \/ speaker = speaker_filter

\* a variant of AfterInvalid in which the error ends the loop over the lines
AfterInvalid_Abort(rest) == <<>>

\* json.loads raises JSONDecodeError, caught inside the loop: continue with
\* the next line (rest: the matches of the lines that follow)
AfterInvalid(rest) == rest

\* a variant of AfterNotObject that goes on with the next line
AfterNotObject_Continue(rest) == rest

\* entry.get(...) on a value that is not a dict raises AttributeError, which
\* only the except Exception around the loop over the lines catches: the
\* lines that follow (rest: their matches) are not read
AfterNotObject(rest) == <<>>

\* the body that _search_smart, _search_exact, _search_regex and
\* _search_semantic share: the loop over the lines of the opened file f,
\* from line i on; the mode decides how a record is scored
RECURSIVE scan_lines(_, _, _, _, _, _)
scan_lines(f, lines, i, qy, speaker_filter, call) ==
    IF i > Len(lines) THEN <<>>
    ELSE LET line == lines[i]
             rest == scan_lines(f, lines, i + 1, qy, speaker_filter, call)
             speaker == Speaker(line.type)
             scored == Scan(call.mode, call.nlp, call.lemmas, <<line.content>>, qy,
                            call.case_sensitive)
         IN  IF line.json = "invalid" THEN AfterInvalid(rest)
             ELSE IF line.json = "not_object" THEN AfterNotObject(rest)
             ELSE IF line.type \notin {"user", "assistant"} THEN rest
             ELSE IF ~Admits(speaker_filter, speaker) THEN rest
             ELSE IF line.content = <<>> THEN rest
             ELSE IF scored = <<>> THEN rest
             ELSE <<[file |-> f, line |-> i, speaker |-> speaker,
                     content |-> line.content, relevance |-> scored[1].relevance,
                     timestamp |-> line.timestamp]>> \o rest

\* _search_regex returns [] when the pattern does not compile; every
\* _search_* returns [] when open() raises
search_file(f, file, qy, speaker_filter, call) ==
    IF call.mode = "regex" /\ compile(qy) = "re.error" THEN <<>>
    ELSE IF ~file.readable THEN <<>>
    ELSE scan_lines(f, file.lines, 1, qy, speaker_filter, call)

\* search: all_results after the loop over jsonl_files
RECURSIVE extend_from(_, _, _, _, _)
extend_from(files, f, qy, speaker_filter, call) ==
    IF f > Len(files) THEN <<>>
    ELSE search_file(f, files[f], qy, speaker_filter, call)
         \o extend_from(files, f + 1, qy, speaker_filter, call)

\* search, from the enumeration of the files on: an empty enumeration
\* returns at once; an exception of re.compile other than re.error leaves
\* _search_regex, and search, at the first file
search_files(dir, qy, speaker_filter, max_results, call) ==
    IF dir.files = <<>> THEN Outcome("none", <<>>, TRUE, {})
    ELSE IF call.mode = "regex" /\ compile(qy) # "ok"
         THEN Outcome(IF compile(qy) = "re.error" THEN "none" ELSE compile(qy),
                      <<>>, TRUE, {})
    ELSE Outcome("none",
                 TopResults(SortByRelevance(extend_from(dir.files, 1, qy, speaker_filter, call)),
                            max_results),
                 TRUE, 1..Len(dir.files))

\* a variant of search_directory that tests the query before the directory
search_directory_QueryFirst(dir, qy, speaker_filter, max_results, call) ==
    IF qy = <<>> \/ IsBlank(qy) THEN Outcome("none", <<>>, FALSE, {})
    ELSE IF ~dir.exists THEN Outcome("ValueError", <<>>, FALSE, {})
    ELSE search_files(dir, qy, speaker_filter, max_results, call)

\* search: the directory is validated, then the query, then the files are
\* enumerated and searched
search_directory(dir, qy, speaker_filter, max_results, call) ==
    IF ~dir.exists THEN Outcome("ValueError", <<>>, FALSE, {})
    ELSE IF qy = <<>> \/ IsBlank(qy) THEN Outcome("none", <<>>, FALSE, {})
    ELSE search_files(dir, qy, speaker_filter, max_results, call)

\* a call of search: what the mode of the call is taken to be
Call(m, n, l, cs) ==
    [mode |-> m, nlp |-> n, lemmas |-> l, case_sensitive |-> cs]

(* create_smart_searcher (src/src/realtime_search.py): the search method   *)
(* the interactive controller calls.                                       *)

\* any(c in query for c in r".*+?[]{}()^$|\\")
LooksLikeRegex(qy) ==
    \E j \in 1..Len(qy) :
        qy[j] \in {".", "*", "+", "?", "[", "]", "{", "}", "(", ")", "^", "$", "|", "\\"}

\* for r in more: if r.file_path not in existing_paths: results.append(r)
\* (existing_paths is computed before the loop)
AddNewFiles(found, more) ==
    found \o SelectSeq(more, LAMBDA r : \A k \in 1..Len(found) : found[k].file # r.file)

\* results.sort(key=lambda x: x.timestamp if x.timestamp else datetime.min,
\* reverse=True): stable, latest first
RECURSIVE InsertByTimestamp(_, _)
InsertByTimestamp(sorted, m) ==
    IF sorted = <<>> THEN <<m>>
    ELSE IF Head(sorted).timestamp >= m.timestamp
         THEN <<Head(sorted)>> \o InsertByTimestamp(Tail(sorted), m)
         ELSE <<m>> \o sorted

RECURSIVE SortByTimestamp(_)
SortByTimestamp(ms) ==
    IF ms = <<>> THEN <<>>
    ELSE InsertByTimestamp(SortByTimestamp(SubSeq(ms, 1, Len(ms) - 1)), ms[Len(ms)])

\* datetime.min has no UTC offset and the parsed timestamps have one:
\* comparing the two raises TypeError
KeysComparable(ms) ==
    \A j, k \in 1..Len(ms) : (ms[j].timestamp = 0) = (ms[k].timestamp = 0)

\* a variant of SortResults that sorts by relevance
SortResults_ByRelevance(ms) == SortByRelevance(ms)

\* the sort of smart_search: by timestamp; when that raises TypeError, by
\* relevance (the order among equal relevances is then the one the
\* interrupted sort left)
SortResults(ms) ==
    IF KeysComparable(ms) THEN SortByTimestamp(ms) ELSE SortByRelevance(ms)

\* smart_search
smart_search(dir, qy, speaker_filter, max_results, call) ==
    LET original_search(mode) ==
            search_directory(dir, qy, speaker_filter, max_results,
                             Call(mode, call.nlp, call.lemmas, call.case_sensitive))
        exact_results == original_search("exact")
        regex_results == original_search("regex")
        with_regex == IF LooksLikeRegex(qy) /\ regex_results.raised = "none"
                      THEN AddNewFiles(exact_results.matches, regex_results.matches)
                      ELSE exact_results.matches
        with_smart == AddNewFiles(with_regex, original_search("smart").matches)
        with_semantic == IF call.nlp
                         THEN AddNewFiles(with_smart, original_search("semantic").matches)
                         ELSE with_smart
    IN  IF exact_results.raised # "none" THEN exact_results
        ELSE Outcome("none", TopResults(SortResults(with_semantic), max_results),
                     exact_results.enumerated \/ original_search("smart").enumerated,
                     exact_results.opened \cup original_search("smart").opened)

\* a call of search, or of the wrapped search, for the session's directory,
\* query and filter
SearchDirectory(call) ==
    /\ d_call.mode = "none"
    /\ d_call' = call
    /\ d_ret' = IF call.mode = "wrapped"
                THEN smart_search(d_dir, d_query, d_speaker_filter, d_max_results, call)
                ELSE search_directory(d_dir, d_query, d_speaker_filter, d_max_results, call)
    /\ UNCHANGED <<d_dir, d_query, d_speaker_filter, d_max_results,
                   e_query, e_corpus, e_case_sensitive, e_max_results, e_mode, e_nlp,
                   e_scored, e_found, e_out,
                   state_vars, results_cache, search_lock, stop_event, c_pc,
                   keys_seen, worker_vars, hist_vars, history_on, typed_chars,
                   hit_counts, display_on, platform, restore_fails,
                   drawn, run_vars, keyboard_vars>>

DirectoryExact == SearchDirectory(Call("exact", FALSE, FALSE, FALSE))

DirectoryRegex == SearchDirectory(Call("regex", FALSE, FALSE, FALSE))

DirectorySmart == \E cs \in BOOLEAN : SearchDirectory(Call("smart", FALSE, FALSE, cs))

\* mode "semantic", with or without the NLP backend
DirectorySemantic ==
    \E nlp \in BOOLEAN, cs \in BOOLEAN : SearchDirectory(Call("semantic", nlp, nlp, cs))

\* the search the interactive controller makes
DirectoryWrapped == \E nlp \in BOOLEAN : SearchDirectory(Call("wrapped", nlp, nlp, FALSE))

NextDirectory ==
    \/ DirectoryExact \/ DirectoryRegex \/ DirectorySmart
    \/ DirectorySemantic \/ DirectoryWrapped

\* the lines of the enumerated files: two records of different speakers, a
\* line that is not JSON, a line of JSON that is not an object, and an
\* entry that is not a message
Entry(type, content, timestamp) ==
    [json |-> "object", type |-> type, content |-> content, timestamp |-> timestamp]

NotJson == [json |-> "invalid", type |-> "none", content |-> <<>>, timestamp |-> 0]

NotObject == [json |-> "not_object", type |-> "none", content |-> <<>>, timestamp |-> 0]

Lines ==
    {Entry("user", <<"b", " ", "c">>, 2), Entry("assistant", <<"c", " ", "b">>, 0),
     NotJson, NotObject, Entry("summary", <<"b", " ", "c">>, 0)}

\* the files the enumeration may find before the session's file: none, one
\* that cannot be opened, one with one record
OtherFiles ==
    {<<>>, <<[readable |-> FALSE, lines |-> <<>>]>>,
     <<[readable |-> TRUE, lines |-> <<Entry("user", <<"c", " ", "b">>, 1)>>]>>}

Directories ==
    {[exists |-> FALSE, files |-> <<>>], [exists |-> TRUE, files |-> <<>>]}
    \cup {[exists |-> TRUE, files |-> other \o <<[readable |-> TRUE, lines |-> ls]>>] :
             other \in OtherFiles, ls \in UNION {[1..n -> Lines] : n \in 0..MaxLines}}

\* the queries: two that match records, an empty and a blank one, and two
\* patterns that do not compile
DirectoryQueries ==
    {<<"b", " ", "c">>, <<"B">>, <<>>, <<" ">>, <<"[">>, <<"b", "{", "9", "}">>}

InitDirectory ==
    /\ InterfaceIdle
    /\ e_query = <<>>
    /\ e_corpus = <<>>
    /\ e_case_sensitive = FALSE
    /\ e_max_results = DEFAULT_MAX_RESULTS
    /\ e_mode = "none"
    /\ e_nlp = FALSE
    /\ e_scored = <<>>
    /\ e_found = <<>>
    /\ e_out = <<>>
    /\ d_dir \in Directories
    /\ d_query \in DirectoryQueries
    /\ d_speaker_filter \in {"none", "human", "assistant"}
    /\ d_max_results \in {1, DEFAULT_MAX_RESULTS}
    /\ d_call = Call("none", FALSE, FALSE, FALSE)
    /\ d_ret = Outcome("none", <<>>, FALSE, {})

SpecDirectory == InitDirectory /\ [][NextDirectory]_vars

(* C1: for a burst of query-text mutations, each less than the debounce    *)
(* window after the previous one, the worker invokes the engine at most    *)
(* once, and that invocation is for the final query text of the burst.     *)
(* burst_runs lists the engine invocations of the cycles snapshotted since *)
(* the burst began; a later mutation of the same burst that changes the    *)
(* text makes a recorded invocation one for a text that is not the final.  *)
(* Stated for the runs in which no clock quantum elapses while the         *)
(* controller is inside the handling of a key, so that a violation does    *)
(* not rest on a stalled handler.                                          *)
C1_OneRunPerBurst ==
    ~handler_stalled =>
        /\ Len(burst_runs) <= 1
        /\ Len(burst_runs) = 1 => burst_runs[1] = query

(* C2: whenever the worker snapshots the query and goes from DIRTY to      *)
(* RUNNING, at least the debounce window has elapsed since the most recent *)
(* mutation of the query text, under every interleaving of the key         *)
(* handler (which changes the text, then records the time) with the poll.  *)
(* Stated, like C1, for the runs without a stalled handler.                *)
C2_IdleBeforeRun ==
    [][(WSnapshot /\ ~handler_stalled) => mut_age >= DEBOUNCE_DELAY_MS]_vars

(* C3: a mutation made while a search is in flight is not lost: once the   *)
(* user stops changing the query text (and the session goes on), the       *)
(* worker runs a cycle for the latest text, so that eventually the dirty   *)
(* flag is clear, the worker is idle and the published results are those   *)
(* for the final query text, for ever.                                     *)
Typing == KeyChar \/ KeyBackspace

SessionOver == c_pc \in {"select", "stop", "join", "returned"}

Settled ==
    /\ ~is_searching
    /\ w_pc \in {"loop", "poll"}
    /\ results.q = query

C3_LatestQuerySearched ==
    ([]<><<Typing>>_vars) \/ <>[](SessionOver \/ Settled)

(* C4: in every reachable state in which the result list is non-empty, the *)
(* selected index is at least 0 and less than min(len(results), display    *)
(* cap of 10).  Stated for the states outside the worker's critical        *)
(* sections, that is, after a publish is complete.                         *)
C4_SelectionInRange ==
    (search_lock # "worker" /\ results.n > 0) =>
        (0 <= selected_index /\ selected_index < Displayed(results).n)

(* C5: with a non-empty result list, handling UP or DOWN leaves the        *)
(* selected index inside [0, len(results) - 1]; with an empty result list, *)
(* UP and DOWN change nothing (selected index, query, cursor, dirty flag). *)
(* Stated for the steps taken outside the worker's critical sections.      *)
C5_UpDownClamped ==
    [][/\ ((KeyUpWrite \/ KeyDownWrite) /\ search_lock # "worker" /\ results.n > 0)
          => (0 <= selected_index' /\ selected_index' <= results.n - 1)
       /\ ((KeyUpCheck \/ KeyDownCheck) /\ results.n = 0)
          => (c_pc' = "redraw" /\ UNCHANGED state_vars)]_vars

(* C6: whenever the worker publishes results taken from the cache for the  *)
(* query q of its cycle, the list is one the engine returned for exactly   *)
(* the string q, never one computed for another query string.              *)
C6_CacheHitForSameQuery == [][WCachePublish => results'.q = w_query]_vars

\* a cache hit has been published while the cache also holds another key
C6_Witness ==
    /\ w_pc = "rel_done"
    /\ w_query # <<>>
    /\ w_results = EmptyList
    /\ results.n > 0
    /\ results.q = w_query
    /\ \E k \in DOMAIN results_cache : k # w_query

(* C7 as stated: when the eviction pass of a keystroke ends, the cache     *)
(* retains exactly the previously cached entries whose key is a textual    *)
(* prefix of the new query.                                                *)
C7_RetainsPrefixes ==
    [][TriggerDelete =>
        \A k \in keys_seen :
            (k \in DOMAIN results_cache') <=> startswith(query, k)]_vars

(* C7 amended: when trigger_search returns after a keystroke, of the       *)
(* entries that were cached when its eviction pass began, exactly those    *)
(* whose key starts with the new query (has it as a prefix) are retained;  *)
(* the others, among them the proper prefixes of the query, are evicted.   *)
C7_RetainsExtensions ==
    [][TriggerDelete =>
        \A k \in keys_seen :
            (k \in DOMAIN results_cache') <=> startswith(k, query)]_vars

\* an eviction pass that has one entry to evict and one to retain
C7_Witness ==
    /\ c_pc = "trigger_del"
    /\ \E k \in keys_seen : ~startswith(k, query) /\ startswith(query, k)
    /\ \E k \in keys_seen : startswith(k, query)

(* C8: every write of the shared query state (query, cursor, selected      *)
(* index, results, dirty flag) and of the result cache is made by a thread *)
(* that holds the mutex.                                                   *)
Shared == <<query, cursor_pos, selected_index, results, is_searching, results_cache>>

C8_AccessUnderLock ==
    [][/\ (Controller /\ Shared' # Shared)
          => (search_lock = "controller" \/ search_lock' = "controller")
       /\ (Worker /\ Shared' # Shared)
          => (search_lock = "worker" \/ search_lock' = "worker")]_vars

(* C9: the worker never holds the mutex while an engine call is executing, *)
(* so a key handler that reaches trigger_search during an engine call can  *)
(* take the lock at once.                                                  *)
C9_EngineOutsideLock ==
    engine_active > 0 =>
        /\ search_lock # "worker"
        /\ c_pc = "trigger" => ENABLED TriggerAcquire

\* a key handler is about to mark the state dirty while the engine runs
C9_Witness == engine_active > 0 /\ c_pc = "trigger"

(* C10: at no time are two engine searches in progress.                    *)
C10_OneSearchAtATime == engine_active <= 1

\* a search is in progress while the state is dirty again
C10_Witness == engine_active = 1 /\ is_searching

(* C11: after the worker has published new results, the controller redraws *)
(* them on its next tick even when no key is pressed: a poll that times    *)
(* out with the screen out of date is followed by a draw of the published  *)
(* results, so that once the user stops pressing keys the screen shows the *)
(* latest published results for ever.                                      *)
\* two result lists hold the same matches
SameList(r1, r2) == r1.n = r2.n /\ (r1.n > 0 => r1.q = r2.q)

ScreenCurrent == SameList(drawn, Displayed(results))

C11_IdleRedraw ==
    /\ [][(TimeoutPass /\ ~ScreenCurrent) => ScreenCurrent']_vars
    /\ ([]<><<KeyPress>>_vars) \/ <>[](SessionOver \/ ScreenCurrent)

(* C12: the published result list is written only by the worker: no step   *)
(* of the controller (no key event) changes it, and every change of it is  *)
(* the publish step of a worker cycle, which sets it to that cycle's       *)
(* output: the engine's result for the cycle's query, the cache entry for  *)
(* it, or the empty list (empty query, engine error).  Between publish     *)
(* steps the list does not change, so it is always the output of the       *)
(* latest cycle that has published.                                        *)
CycleOutputs ==
    {EmptyFor(w_query)} \cup {EngineResult(w_query, n) : n \in hit_counts}

C12_ResultsFromWorker ==
    [][/\ Controller => UNCHANGED results
       /\ (results' # results) =>
              /\ Worker
              /\ w_pc \in {"dispatch", "cache_hit", "pub_results", "except"}
              /\ results' \in CycleOutputs]_vars

\* a key has changed the query since the displayed list was published
C12_Witness ==
    /\ c_pc = "redraw"
    /\ results.n > 0
    /\ results.q # query
    /\ w_pc \in {"loop", "poll"}

(* C13: on every path by which run() returns or unwinds (ESC, ENTER         *)
(* selection, user interrupt, an exception raised inside the loop), the    *)
(* terminal's saved settings have been restored when control is in the     *)
(* finally clause or has left run(), and stop() sets the stop signal       *)
(* before control leaves run().                                            *)
C13_TeardownOnEveryPath ==
    /\ [](run_result.outcome # "running" => ~raw_mode)
    /\ [](c_pc \in {"stop", "join", "returned"} => run_result.outcome # "running")
    /\ [][Stop => stop_event']_vars

(* C14: after stop() has set the stop signal the worker thread eventually  *)
(* ends (an engine call in flight returns); once it has observed the       *)
(* signal at the head of its loop it starts no new cycle; and stop()       *)
(* returns, without raising, when the join times out, whatever the worker  *)
(* is doing, also when it is still inside an engine call.  The signal is   *)
(* set once and stays set until the worker's own cleanup clears it, and    *)
(* the controller waits in join once: "eventually ends" and "eventually    *)
(* returns" are stated as: from some time on, the signal is not set while  *)
(* the worker is alive, and the controller is not waiting in join.         *)
WorkerEnding == w_pc \in {"cleanup", "dead"}

StopPending == (stop_event /\ WorkerAlive) \/ c_pc \in {"stop", "join"}

C14_StopEndsWorker ==
    /\ <>[]~StopPending
    /\ [][(WLoopCheck /\ stop_event) => WorkerEnding']_vars
    /\ [][WorkerEnding => WorkerEnding']_vars
    /\ [](c_pc = "join" => ENABLED JoinReturn)
    /\ [][c_pc = "join" => c_pc' \in {"join", "returned"}]_vars

\* stop() has returned while the worker is still inside the engine call
C14_Witness ==
    /\ c_pc = "returned"
    /\ stop_event
    /\ w_pc = "engine"

(* C15: a worker cycle whose snapshotted query text is empty publishes an  *)
(* empty result list and ends: it does not test, read or write the cache   *)
(* and does not invoke the engine.                                         *)
InSearchPath ==
    w_pc \in {"cache_hit", "engine_call", "engine", "cache_put",
              "pub_results", "pub_sel", "except"}

C15_EmptyQueryShortCircuit ==
    /\ [](InSearchPath => w_query # <<>>)
    /\ [][(Worker /\ w_pc = "dispatch" /\ w_query = <<>>) =>
              /\ results'.n = 0
              /\ w_pc' = "rel_done"
              /\ UNCHANGED <<results_cache, engine_active>>]_vars

\* an empty-query cycle has published while the cache holds entries and
\* the previous list was not empty
C15_Witness ==
    /\ w_pc = "rel_done"
    /\ w_query = <<>>
    /\ results.n = 0
    /\ results_cache # EmptyCache
    /\ selected_index > 0

(* C16 as stated: every key event that changes the query text or the       *)
(* cursor position (a printable character, an effective BACKSPACE, a LEFT  *)
(* or RIGHT that moves the cursor) marks the state dirty for the scheduler *)
(* and records the time of the change: its handler goes on to              *)
(* trigger_search, whose next step sets the dirty flag and the time of the *)
(* last update.                                                            *)
MarksDirty == (Controller /\ c_pc = "trigger") => (is_searching' /\ update_age' = 0)

C16_MutationMarksDirty ==
    [][/\ (query' # query \/ cursor_pos' # cursor_pos) => c_pc' = "trigger"
       /\ MarksDirty]_vars

(* C16 amended: every key event that changes the query text (a printable   *)
(* character, an effective BACKSPACE) marks the state dirty and records    *)
(* the time of the change; LEFT and RIGHT, which change at most the cursor *)
(* position, leave the dirty flag and the recorded time as they are.       *)
C16_TextMutationMarksDirty ==
    [][/\ (query' # query) => c_pc' = "trigger"
       /\ MarksDirty
       /\ (KeyLeft \/ KeyRight) =>
              (c_pc' = "redraw" /\ UNCHANGED <<query, is_searching, update_age>>)]_vars

\* a character typed in front of the cursor's old place has marked the
\* state dirty
C16_Witness ==
    /\ c_pc = "trigger_del"
    /\ is_searching
    /\ update_age = 0
    /\ cursor_pos < Len(query)

(* C17: in every state in which the result list holds at least one match,  *)
(* ENTER ends the loop in SELECTED, and run() then returns the file path   *)
(* of the match at the selected index; ENTER with an empty result list     *)
(* leaves the controller running with the state unchanged; ESCAPE ends the *)
(* loop in CANCELLED (run() returns no selection) from every state.        *)
C17_EnterEscape ==
    [][/\ (KeyEnter /\ results.n > 0) => c_pc' = "select"
       /\ (Controller /\ c_pc = "select") =>
              run_result' = Returned("selected", results.q, selected_index)
       /\ (KeyEnter /\ results.n = 0) => (c_pc' = "redraw" /\ UNCHANGED state_vars)
       /\ KeyEscape => run_result' = Returned("cancelled", <<>>, 0)]_vars

(* C18: for every sequence of key events 0 <= cursor_pos <= len(query).    *)
(* A printable character is inserted exactly at the cursor (the text       *)
(* before the cursor and the text after it are kept, in order, around the  *)
(* new character) and the cursor advances by one.  BACKSPACE with the      *)
(* cursor > 0 removes exactly the character before the cursor and moves    *)
(* the cursor back by one; with the cursor at 0 it changes neither query   *)
(* nor cursor.  LEFT and RIGHT move the cursor by one, clamped to          *)
(* [0, len(query)], and do not change the query.                           *)
CursorInRange == 0 <= cursor_pos /\ cursor_pos <= Len(query)

InsertedAtCursor ==
    /\ Len(query') = Len(query) + 1
    /\ cursor_pos' = cursor_pos + 1
    /\ query'[cursor_pos + 1] \in typed_chars
    /\ \A i \in 1..Len(query) :
          IF i <= cursor_pos THEN query'[i] = query[i] ELSE query'[i + 1] = query[i]

RemovedBeforeCursor ==
    /\ Len(query') = Len(query) - 1
    /\ cursor_pos' = cursor_pos - 1
    /\ \A i \in 1..Len(query) :
          /\ i < cursor_pos => query'[i] = query[i]
          /\ i > cursor_pos => query'[i - 1] = query[i]

C18_LineEditing ==
    /\ []CursorInRange
    /\ [][/\ KeyChar => InsertedAtCursor
          /\ KeyBackspace => (cursor_pos > 0 /\ RemovedBeforeCursor)
          /\ KeyBackspaceNoop => (cursor_pos = 0 /\ UNCHANGED <<query, cursor_pos>>)
          /\ KeyLeft =>
                /\ cursor_pos' = (IF cursor_pos = 0 THEN 0 ELSE cursor_pos - 1)
                /\ UNCHANGED query
          /\ KeyRight =>
                /\ cursor_pos' = (IF cursor_pos = Len(query) THEN cursor_pos
                                                               ELSE cursor_pos + 1)
                /\ UNCHANGED query]_vars

\* a character has been typed in front of another: 'a', LEFT, 'b'
C18_Witness ==
    /\ query = <<"b", "a">>
    /\ cursor_pos = 1
    /\ c_pc = "redraw"

(* Scenarios of the keyboard: the pieces the terminal writes, in order.    *)
RECURSIVE WritesFrom(_)
WritesFrom(p) ==
    IF p >= Len(wire) THEN <<>>
    ELSE <<SubSeq(wire, p + 1, WriteEnd(p))>> \o WritesFrom(WriteEnd(p))

Writes == WritesFrom(0)

ArrowName == ("A" :> "UP") @@ ("B" :> "DOWN") @@ ("C" :> "RIGHT") @@ ("D" :> "LEFT")

ArrowSequences == {<<"ESC", "[", d>> : d \in DOMAIN ArrowName}

\* the terminal writes the bytes of each key in one piece, and every key is
\* an arrow or a printable character
WholeKeys ==
    \A i \in 1..Len(Writes) :
        Writes[i] \in ArrowSequences \cup {<<c>> : c \in Printable}

\* the logical key of such a piece
KeyWritten(w) == IF w \in ArrowSequences THEN ArrowName[w[3]] ELSE w[1]

IsPrefix(s1, s2) == Len(s1) <= Len(s2) /\ SubSeq(s2, 1, Len(s1)) = s1

(* C19: whenever the input delivers the bytes ESC '[' followed by 'A',     *)
(* 'B', 'C' or 'D', get_key yields exactly one event for the whole         *)
(* sequence (UP, DOWN, RIGHT, LEFT), and no byte of it is returned as      *)
(* ESCAPE or as a character by that call or a later one.  Stated for the   *)
(* scenarios in which the terminal writes each key in one piece and at     *)
(* least one key is an arrow: the events returned so far are the keys      *)
(* written, in order, one event for each.                                  *)
C19_ArrowsDecoded ==
    (WholeKeys /\ \E i \in 1..Len(Writes) : Writes[i] \in ArrowSequences) =>
        IsPrefix(events, [i \in 1..Len(Writes) |-> KeyWritten(Writes[i])])

(* C20: after an ESC lead byte followed by bytes that do not form an arrow *)
(* sequence, get_key returns NONE, every trailing byte has been consumed   *)
(* when it returns, and none is delivered as a character by a later call;  *)
(* an ESC byte with no byte following yields ESCAPE.  Stated for the       *)
(* scenarios in which the terminal writes the whole input in one piece.    *)
UnknownEscape ==
    /\ Len(wire) >= 2
    /\ cuts = {}
    /\ wire[1] = "ESC"
    /\ Len(wire) >= 3 => SubSeq(wire, 1, 3) \notin ArrowSequences

C20_UnknownDrained ==
    /\ UnknownEscape =>
          /\ events \in {<<>>, <<"NONE">>}
          /\ events = <<"NONE">> => (os_buf = <<>> /\ py_buf = <<>>)
    /\ wire = <<"ESC">> => events \in {<<>>, <<"ESC">>}

(* C21: on both backends, when Ctrl+C (the byte 0x03) is read, get_key      *)
(* surfaces the interrupt: the controller loop ends as cancelled, with the *)
(* terminal restored (no raw mode) and control in the finally clause that  *)
(* stops the worker; the byte is not returned as None or as a character    *)
(* that the controller ignores.  Stated for the sessions whose terminal    *)
(* accepts the restore.                                                    *)
C21_InterruptSurfaced ==
    [][(ReadKey(<<"ETX">>) /\ ~restore_fails) =>
          /\ run_result' = Returned("cancelled", <<>>, 0)
          /\ ~raw_mode'
          /\ c_pc' = "stop"]_vars

(* C23: if restoring the terminal settings fails with an I/O error when    *)
(* the session ends, the error does not propagate out of run(), and the    *)
(* scheduler is still stopped: when run() is left, stop() has signalled    *)
(* the worker or found it ended.                                           *)
SchedulerStopped == stop_event \/ ~WorkerAlive

C23_RestoreErrorContained ==
    /\ run_result.outcome # "restore_error"
    /\ (RestoreRaises /\ c_pc = "returned") => SchedulerStopped

(* C22: whenever the controller draws while a search for the current,      *)
(* non-empty query is pending (the dirty flag is set) or in flight (the    *)
(* worker's cycle for that query has not published yet), the result area   *)
(* differs from the "no results found" rendering of a completed search     *)
(* that matched nothing.                                                   *)
SearchUnderWay == is_searching \/ (InSearchPath /\ w_query = query)

C22_SearchingShownDistinctly ==
    [][(Redraw /\ display_on /\ query # <<>> /\ SearchUnderWay) =>
          ResultArea(drawn') # "No results found for query"]_vars

(* Statements about the engine.  The case setting of the call decides how  *)
(* texts are compared; an occurrence of the literal is a place where the   *)
(* text reads as the literal; the words of a text are its maximal runs of  *)
(* characters other than whitespace; the tokens are the words that are not *)
(* stop words.                                                             *)
Fold(text) == IF e_case_sensitive THEN text ELSE lower(text)

OccursAt(text, lit, i) == SubSeq(text, i, i + Len(lit) - 1) = lit

Occurrences(text, lit) == {i \in 1..(Len(text) - Len(lit) + 1) : OccursAt(text, lit, i)}

\* the largest number of occurrences no two of which overlap
DisjointOccurrences(text, lit) ==
    LET Disjoint(P) == \A i, j \in P : i < j => i + Len(lit) <= j
        sizes == {Cardinality(P) : P \in {X \in SUBSET Occurrences(text, lit) : Disjoint(X)}}
    IN  CHOOSE n \in sizes : \A m \in sizes : m <= n

HasLiteral(r) == Occurrences(Fold(e_corpus[r]), Fold(e_query)) # {}

TokensOf(text) ==
    {SubSeq(text, i, j) : <<i, j>> \in
        {p \in (1..Len(text)) \X (1..Len(text)) :
            /\ p[1] <= p[2]
            /\ \A k \in p[1]..p[2] : text[k] # " "
            /\ (p[1] = 1 \/ text[p[1] - 1] = " ")
            /\ (p[2] = Len(text) \/ text[p[2] + 1] = " ")}} \ stop_words

Matched(r) == \E i \in 1..Len(e_out) : e_out[i].rec = r

MatchOf(r) == e_out[CHOOSE i \in 1..Len(e_out) : e_out[i].rec = r]

Searched == e_mode # "none" /\ ~IsBlank(e_query)

(* C24: for every query, every set of records and every mode (exact,       *)
(* regex, smart, semantic), every match returned has a relevance of at     *)
(* least 0.0 and at most 1.0.                                              *)
C24_RelevanceInUnitInterval ==
    \A i \in 1..Len(e_out) : 0 <= e_out[i].relevance /\ e_out[i].relevance <= Scale

\* a smart search whose parts add up to more than 1.0
C24_Witness ==
    /\ e_mode = "smart"
    /\ Len(e_out) = 1
    /\ e_scored[1].exact + e_scored[1].overlap + e_scored[1].proximity > Scale
    /\ e_out[1].relevance = Scale

(* C25: in exact mode a record is returned if and only if its text         *)
(* contains the literal query, compared under the case setting, and the    *)
(* relevance of a record that contains it k >= 1 times is exactly          *)
(* min(1.0, 0.2 k); regex mode likewise gives min(1.0, 0.2 match_count).   *)
(* k counts occurrences that do not overlap, and a pattern of literal      *)
(* characters has as many matches as the literal has such occurrences.     *)
ScoreOfCount(k) == IF 2 * k >= 10 THEN Scale ELSE 2 * k * (Scale \div 10)

IsLiteralPattern(pattern) == \A i \in 1..Len(pattern) : pattern[i] # "."

C25_ExactScoresByCount ==
    (Searched /\ (e_mode = "exact" \/ (e_mode = "regex" /\ IsLiteralPattern(e_query)))) =>
        \A r \in 1..Len(e_corpus) :
            LET k == DisjointOccurrences(Fold(e_corpus[r]), Fold(e_query))
            IN  /\ Matched(r) <=> k >= 1
                /\ Matched(r) => MatchOf(r).relevance = ScoreOfCount(k)

\* six occurrences: 0.2 k exceeds 1.0
C25_Witness ==
    /\ e_mode = "exact"
    /\ ~e_case_sensitive
    /\ e_query = <<"B">>
    /\ Len(e_out) = 1
    /\ DisjointOccurrences(Fold(e_corpus[1]), Fold(e_query)) = 6
    /\ e_out[1].relevance = Scale

(* C26: in smart mode every record whose text contains the literal query   *)
(* scores at least 0.5 and is returned (before the truncation to           *)
(* max_results), and a record that has neither the literal nor a token in  *)
(* common with the query (stop words apart) is never returned.  For the    *)
(* query "python" and the two records "Python decorators are great" and    *)
(* "Explain JavaScript promises" exactly the first is returned, with a     *)
(* relevance of at least 0.5; the query "rust" in exact mode returns       *)
(* nothing.                                                                *)
SharesToken(r) == TokensOf(Fold(e_query)) \cap TokensOf(Fold(e_corpus[r])) # {}

C26_SmartLiteralAndTokens ==
    /\ (Searched /\ e_mode = "smart") =>
          \A r \in 1..Len(e_corpus) :
              /\ HasLiteral(r) => (e_scored[r].relevance >= Tenths(5) /\ Matched(r))
              /\ (~HasLiteral(r) /\ ~SharesToken(r)) => ~Matched(r)
    /\ (e_mode = "smart" /\ e_query = Python /\ e_corpus = ScenarioA /\ ~e_case_sensitive) =>
          (Len(e_out) = 1 /\ e_out[1].rec = 1 /\ e_out[1].relevance >= Tenths(5))
    /\ (e_mode = "exact" /\ e_query = Rust /\ e_corpus = ScenarioA) => e_out = <<>>

\* a record that has the literal inside a word and no token of the query
C26_Witness ==
    /\ e_mode = "smart"
    /\ Len(e_corpus) = 1
    /\ HasLiteral(1)
    /\ ~SharesToken(1)
    /\ Matched(1)
    /\ e_scored[1].overlap = 0

(* C27: the token overlap part of the smart score is                       *)
(* min(0.4, 0.4 |Q \cap C| / |Q|), where Q and C are the tokens of the      *)
(* query and of the record with the stop words removed, and 0 when Q is    *)
(* empty; it is the whole relevance when the literal does not occur and    *)
(* there is no proximity bonus.                                            *)
OverlapOf(Q, C) ==
    IF Q = {} THEN 0
    ELSE Min(Tenths(4), (Tenths(4) * Cardinality(Q \cap C)) \div Cardinality(Q))

C27_TokenOverlapPart ==
    (Searched /\ e_mode = "smart") =>
        \A r \in 1..Len(e_corpus) :
            /\ e_scored[r].overlap = OverlapOf(TokensOf(Fold(e_query)), TokensOf(Fold(e_corpus[r])))
            /\ (~HasLiteral(r) /\ e_scored[r].proximity = 0) =>
                   e_scored[r].relevance = e_scored[r].overlap

\* two of three query tokens are in the record, the literal is not
C27_Witness ==
    /\ e_mode = "smart"
    /\ Len(e_corpus) = 1
    /\ ~HasLiteral(1)
    /\ Cardinality(TokensOf(Fold(e_query))) = 3
    /\ Cardinality(TokensOf(Fold(e_query)) \cap TokensOf(Fold(e_corpus[1]))) = 2
    /\ e_scored[1].relevance = e_scored[1].overlap
    /\ e_scored[1].overlap > 0

(* C28: for a query with at least two tokens (stop words apart) and a      *)
(* record of any number of words, the smart score includes the proximity   *)
(* bonus 0.1 if and only if some run of at most 2 |query tokens|           *)
(* consecutive words of the record contains every query token; the total   *)
(* is clamped to [0, 1].                                                   *)
HasCloseRun(words, Q) ==
    \E i \in 1..Len(words) : \E j \in i..Len(words) :
        /\ j - i + 1 <= 2 * Cardinality(Q)
        /\ Q \subseteq {words[k] : k \in i..j}

C28_ProximityBonus ==
    (Searched /\ e_mode = "smart") =>
        \A r \in 1..Len(e_corpus) :
            LET Q == TokensOf(Fold(e_query))
            IN  /\ Cardinality(Q) >= 2 =>
                      (e_scored[r].proximity = Tenths(1) <=> HasCloseRun(split(Fold(e_corpus[r])), Q))
                /\ e_scored[r].proximity \in {0, Tenths(1)}
                /\ e_scored[r].relevance =
                      Min(Scale, e_scored[r].exact + e_scored[r].overlap + e_scored[r].proximity)

(* C29 as stated: smart mode discards a record exactly when its relevance  *)
(* is below 0.1, and exact mode never returns a relevance below 0.1.       *)
C29_DiscardBelowThreshold ==
    /\ (Searched /\ e_mode = "smart") =>
          \A r \in 1..Len(e_corpus) : ~Matched(r) <=> e_scored[r].relevance < Tenths(1)
    /\ (Searched /\ e_mode = "exact") =>
          \A i \in 1..Len(e_out) : e_out[i].relevance >= Tenths(1)

(* C29 amended: smart mode discards a record exactly when its relevance is *)
(* 0.1 or less (it returns the records that score more than 0.1), and      *)
(* exact mode never returns a relevance below 0.1.                         *)
C29_DiscardUpToThreshold ==
    /\ (Searched /\ e_mode = "smart") =>
          \A r \in 1..Len(e_corpus) : ~Matched(r) <=> e_scored[r].relevance <= Tenths(1)
    /\ (Searched /\ e_mode = "exact") =>
          \A i \in 1..Len(e_out) : e_out[i].relevance >= Tenths(1)

\* a record that scores 0.1: one of four query tokens, nothing else
C29_Witness ==
    /\ Searched
    /\ e_mode = "smart"
    /\ Len(e_corpus) = 1
    /\ e_scored[1].relevance = Tenths(1)
    /\ e_out = <<>>

(* C30: search returns the max_results matches of highest relevance, in    *)
(* order of non-increasing relevance: it returns at most max_results       *)
(* matches, all of them matches the scan found, as many as the limit and   *)
(* the number found allow, and no match that is left out has a higher      *)
(* relevance than one that is returned.                                    *)
C30_TopByRelevance ==
    (e_mode # "none") =>
        /\ Len(e_out) = Min(e_max_results, Len(e_found))
        /\ \A i \in 1..Len(e_out) : \A j \in i..Len(e_out) :
               e_out[i].relevance >= e_out[j].relevance
        /\ \A i \in 1..Len(e_out) : \A j \in 1..Len(e_out) :
               e_out[i].rec = e_out[j].rec => i = j
        /\ ToSet(e_out) \subseteq ToSet(e_found)
        /\ \A m \in ToSet(e_found) \ ToSet(e_out) : \A i \in 1..Len(e_out) :
               m.relevance <= e_out[i].relevance

\* more matches than the limit, found in ascending order of relevance
C30_Witness ==
    /\ e_mode = "smart"
    /\ e_max_results = 2
    /\ Len(e_found) = 3
    /\ e_found[1].relevance < e_found[2].relevance
    /\ e_found[2].relevance < e_found[3].relevance
    /\ Len(e_out) = 2
    /\ e_out[1] = e_found[3]

(* C38: between the controller's test that ENTER selects a valid index and  *)
(* its read of results[selected_index], no publish of the worker makes the *)
(* read go out of range or yield a match outside the published list: the   *)
(* statement that follows the test returns the path of the match at the    *)
(* selected index of the list that is published then, and never raises.    *)
C38_SelectReadsPublished ==
    [][(c_pc = "select" /\ c_pc' # "select") =>
           /\ run_result'.outcome = "selected"
           /\ run_result'.q = results.q
           /\ run_result'.i = selected_index
           /\ run_result'.i < results.n]_vars

(* C39: between keystrokes the cache holds no entry that the eviction rule *)
(* of trigger_search would have removed for the current query: while the   *)
(* controller waits for a key, every cached key starts with the query, so  *)
(* a search that was in flight when the query changed has not inserted the *)
(* results of its superseded query after the eviction pass.                *)
C39_NoSupersededEntry ==
    c_pc = "get_key" => KeysToRemove(DOMAIN results_cache, query) = {}

(* C40: when the engine raises during a worker cycle, the worker publishes *)
(* the empty list for the cycle's query, puts nothing in the cache, and    *)
(* returns to the head of its loop, where it polls again unless it is told *)
(* to stop; the exception does not end the worker thread (only a failed    *)
(* cache read does) and no step of this path touches the controller.       *)
C40_EngineErrorContained ==
    [][/\ (w_pc = "engine" /\ w_pc' # "engine") => w_pc' \in {"cache_put", "except"}
       /\ (w_pc = "except" /\ w_pc' # "except") =>
              /\ results' = [q |-> w_query, n |-> 0]
              /\ results_cache' = results_cache
              /\ w_pc' = "rel_done"
       /\ (w_pc = "rel_done" /\ w_pc' # "rel_done") => (w_pc' = "loop" /\ search_lock' = "none")
       /\ (w_pc = "loop" /\ w_pc' # "loop" /\ ~stop_event) => w_pc' = "poll"
       /\ (w_pc' = "crashed" /\ w_pc # "crashed") => w_pc = "cache_hit"
       /\ (w_pc \in {"engine", "except"} /\ w_pc' # w_pc) => UNCHANGED <<c_pc, run_result>>]_vars

\* the engine raised for "a" (no search of the session finds nothing), and
\* the worker is searching the later query "aa"
C40_Witness ==
    /\ results = [q |-> <<"a">>, n |-> 0]
    /\ <<"a">> \notin DOMAIN results_cache
    /\ w_pc = "engine"
    /\ w_query = <<"a", "a">>

(* Statements about the search of a directory.                             *)
SearchModes == {"exact", "regex", "smart", "semantic"}

Called == d_call.mode \in SearchModes

BlankQuery == d_query = <<>> \/ IsBlank(d_query)

NonIncreasing(ms) == \A j, k \in 1..Len(ms) : j < k => ms[j].relevance >= ms[k].relevance

(* C31: the result list the interactive controller receives, the list the  *)
(* search wrapped by create_smart_searcher returns and the worker          *)
(* publishes as it is, is in order of non-increasing relevance, for every  *)
(* query.                                                                  *)
C31_WrappedBestFirst ==
    (d_call.mode = "wrapped" /\ d_ret.raised = "none") => NonIncreasing(d_ret.matches)

\* the matches of the call when no speaker filter is given and nothing is
\* cut off (a directory has MaxLines + 1 lines at most)
Unfiltered ==
    search_directory(d_dir, d_query, "none", MaxLines + 1, d_call).matches

(* C32: with a speaker filter s (human or assistant), in every mode every  *)
(* match returned has speaker s, and the records the filter admits are     *)
(* scored as without the filter: the list returned is the list of the      *)
(* unfiltered search with the matches of the other speaker left out, cut   *)
(* to max_results.                                                         *)
C32_SpeakerFilter ==
    (Called /\ d_speaker_filter \in {"human", "assistant"} /\ d_ret.raised = "none") =>
        /\ \A j \in 1..Len(d_ret.matches) : d_ret.matches[j].speaker = d_speaker_filter
        /\ d_ret.matches =
               TopResults(SelectSeq(Unfiltered, LAMBDA r : r.speaker = d_speaker_filter),
                          d_max_results)

\* the unfiltered search finds both speakers, the filtered one returns the
\* human's record
C32_Witness ==
    /\ Called
    /\ d_speaker_filter = "human"
    /\ d_ret.matches # <<>>
    /\ \E j \in 1..Len(Unfiltered) : Unfiltered[j].speaker = "assistant"
    /\ \E j \in 1..Len(Unfiltered) : Unfiltered[j].speaker = "human"

(* C33: in regex mode a pattern that does not compile never raises to the  *)
(* caller: search returns the empty list, whatever files the (existing)    *)
(* directory contains.                                                     *)
C33_InvalidPatternContained ==
    (d_call.mode = "regex" /\ d_dir.exists /\ compile(d_query) # "ok") =>
        (d_ret.raised = "none" /\ d_ret.matches = <<>>)

(* C34: without an NLP backend, search in mode semantic returns what       *)
(* search in mode smart returns for the same query, directory, filter,     *)
(* limit and case setting (the same ordered list, the same error for a     *)
(* directory that does not exist), and never raises for an existing        *)
(* directory.                                                              *)
C34_SemanticFallsBackToSmart ==
    (d_call.mode = "semantic" /\ ~d_call.nlp) =>
        /\ d_ret = search_directory(d_dir, d_query, d_speaker_filter, d_max_results,
                                    Call("smart", FALSE, FALSE, d_call.case_sensitive))
        /\ d_dir.exists => d_ret.raised = "none"

\* a semantic search without backend that returns a match
C34_Witness ==
    /\ d_call.mode = "semantic"
    /\ ~d_call.nlp
    /\ d_ret.matches # <<>>
    /\ d_ret.matches[1].relevance > relevance_threshold

\* the file of the session: the last one of the enumeration
SessionFile == d_dir.files[Len(d_dir.files)]

IsRecord(line) == line.json = "object" /\ line.type \in {"user", "assistant"}

\* the places of the lines of the session's file that are not records
CorruptLines == {k \in 1..Len(SessionFile.lines) : ~IsRecord(SessionFile.lines[k])}

\* the session's file is N records and one corrupt line, a line that is
\* not JSON
OneCorruptLine ==
    /\ d_dir.exists
    /\ d_dir.files # <<>>
    /\ Cardinality(CorruptLines) = 1
    /\ \A k \in CorruptLines : SessionFile.lines[k].json = "invalid"

RemoveAt(sq, k) == SubSeq(sq, 1, k - 1) \o SubSeq(sq, k + 1, Len(sq))

\* the directory with line k of the session's file removed
WithoutLine(k) ==
    [d_dir EXCEPT !.files[Len(d_dir.files)].lines = RemoveAt(SessionFile.lines, k)]

\* what search returns for the directory without line k
WithoutLineMatches(k) ==
    search_directory(WithoutLine(k), d_query, d_speaker_filter, d_max_results, d_call).matches

(* C35 as stated: for a file of N valid record lines and one corrupt line  *)
(* at any position, search yields, in every mode, the same matches (file,  *)
(* line, speaker, snippet, relevance, timestamp) as for the file with the  *)
(* corrupt line removed.                                                   *)
C35_CorruptLineAsRemoved ==
    (Called /\ OneCorruptLine /\ d_ret.raised = "none") =>
        \A k \in CorruptLines : d_ret.matches = WithoutLineMatches(k)

\* the matches ms with those of the session's file that come from line k or
\* a later one moved down by one line
LinesShifted(ms, k) ==
    [j \in 1..Len(ms) |->
        IF ms[j].file = Len(d_dir.files) /\ ms[j].line >= k
        THEN [ms[j] EXCEPT !.line = ms[j].line + 1]
        ELSE ms[j]]

(* C35 amended: for a file of N valid record lines and one corrupt line    *)
(* (a line that is not JSON) at any position, search yields, in every      *)
(* mode, the matches of the file with the corrupt line removed, in the     *)
(* same order and with the same file, speaker, snippet, relevance and      *)
(* timestamp; the line of a match is the same when the match comes before  *)
(* the corrupt line and greater by one when it comes after it.             *)
C35_CorruptLineShiftsLines ==
    (Called /\ OneCorruptLine /\ d_ret.raised = "none") =>
        \A k \in CorruptLines : d_ret.matches = LinesShifted(WithoutLineMatches(k), k)

\* a match from a line after the corrupt one, and one from a line before it
C35_Witness ==
    /\ Called
    /\ OneCorruptLine
    /\ \E k \in CorruptLines, i, j \in 1..Len(d_ret.matches) :
          /\ d_ret.matches[i].file = Len(d_dir.files)
          /\ d_ret.matches[i].line > k
          /\ d_ret.matches[j].file = Len(d_dir.files)
          /\ d_ret.matches[j].line < k

\* the directory in which every line that is not decoded into an object
\* is an entry that the scan passes over, and every file that cannot be
\* opened is an empty one
Skipping ==
    [d_dir EXCEPT !.files =
        [f \in 1..Len(d_dir.files) |->
            [readable |-> TRUE,
             lines |-> [k \in 1..Len(d_dir.files[f].lines) |->
                           IF d_dir.files[f].lines[k].json = "object"
                           THEN d_dir.files[f].lines[k]
                           ELSE Entry("summary", <<>>, 0)]]]]

(* C36: malformed input is skipped at the finest granularity: a line that  *)
(* is not decoded into a record (invalid JSON, or JSON that is not an      *)
(* object) makes the scan skip that line only, the valid lines after it    *)
(* are scanned and can match, a file that cannot be read does not keep the *)
(* other files from matching, and no exception reaches the caller.         *)
C36_SkippedLineByLine ==
    (Called /\ d_dir.exists /\ ~(d_call.mode = "regex" /\ compile(d_query) # "ok")) =>
        /\ d_ret.raised = "none"
        /\ d_ret.matches =
               search_directory(Skipping, d_query, d_speaker_filter, d_max_results,
                                d_call).matches

(* C37: search for a directory that does not exist fails with an error     *)
(* before any file is enumerated or read, for every query (the empty one   *)
(* too) and every mode; for an existing directory an empty or blank query  *)
(* returns the empty list and no file is enumerated or read.               *)
C37_DirectoryThenQuery ==
    Called =>
        /\ ~d_dir.exists =>
               (d_ret.raised # "none" /\ ~d_ret.enumerated /\ d_ret.opened = {})
        /\ (d_dir.exists /\ BlankQuery) =>
               /\ d_ret.raised = "none"
               /\ d_ret.matches = <<>>
               /\ ~d_ret.enumerated
               /\ d_ret.opened = {}

\* the empty query for a directory that does not exist
C37_Witness ==
    /\ Called
    /\ ~d_dir.exists
    /\ d_query = <<>>
    /\ d_ret.raised = "ValueError"

====
